---- MODULE Spec2Model ----
(***************************************************************************)
(* Market-analytics engine of velle.ai (src/unnamed/part_002): indicator   *)
(* library, RSI backtest, top-level operations and watchlist scans.        *)
(*                                                                         *)
(* Numbers.  JavaScript numbers are IEEE doubles; here a number x is the   *)
(* integer x * SCALE (fixed point, four decimals), and FMul / FDiv round  *)
(* toward zero.  Counts (period, length, index) are plain integers and are *)
(* converted with Num where the code mixes them with prices.  Inputs are   *)
(* positive prices of moderate size, so that no modelled quantity is       *)
(* rounded to 0 where the double would be positive.                        *)
(*                                                                         *)
(* Arrays.  A JavaScript array is a sequence; the code's index i is the    *)
(* sequence's index i + 1.  null is NULL; an array hole (an index never    *)
(* assigned, below the length) is EMPTY.  Both satisfy `v == null`.        *)
(***************************************************************************)
EXTENDS Integers, Sequences, FiniteSets, TLC

SCALE == 100 * 100

NULL == 0 - (2 ^ 30)

EMPTY == 1 - (2 ^ 30)

OBJECT == 2 - (2 ^ 30)

ONE == SCALE

Num(n) == n * SCALE

Abs(x) == IF x < 0 THEN 0 - x ELSE x

Min(a, b) == IF a < b THEN a ELSE b

Max(a, b) == IF a > b THEN a ELSE b

Sign(a, b) == IF (a >= 0) = (b >= 0) THEN 1 ELSE 0 - 1

\* floor(r * s / b) for 0 <= r < b, one decimal digit of the quotient at a time,
\* so that no intermediate product leaves 32 bits
RECURSIVE DivDigits(_, _, _)
DivDigits(r, b, s) ==
  IF s = 1 THEN 0
  ELSE LET t == r * 10
       IN (t \div b) * (s \div 10) + DivDigits(t % b, b, s \div 10)

\* floor(a * b / SCALE) for a, b >= 0, by splitting both factors at SCALE
UMul(a, b) ==
  a * (b \div SCALE) + (a \div SCALE) * (b % SCALE)
    + ((a % SCALE) * (b % SCALE)) \div SCALE

\* floor(a * SCALE / b) for a >= 0, b > 0
UDiv(a, b) == (a \div b) * SCALE + DivDigits(a % b, b, SCALE)

\* number * number, rounded toward zero
FMul(a, b) == Sign(a, b) * UMul(Abs(a), Abs(b))

\* number / number, rounded toward zero
FDiv(a, b) == Sign(a, b) * UDiv(Abs(a), Abs(b))

\* the result of 0 / 0 and of every operation on it
NaN == 3 - (2 ^ 30)

\* the result of x / 0 for x > 0; 0 - Infinity for x < 0
Infinity == (2 ^ 30) - 8

IsInfinite(v) == v = Infinity \/ v = 0 - Infinity

\* a number that is neither NaN nor an infinity
IsFinite(v) == v # NaN /\ ~IsInfinite(v) /\ v > OBJECT

\* a / b of JavaScript, which never raises: a zero divisor gives NaN or an
\* infinity, and both propagate
JsDiv(a, b) ==
  IF a = NaN \/ b = NaN THEN NaN
  ELSE IF b = 0 THEN (IF a = 0 THEN NaN ELSE IF a > 0 THEN Infinity ELSE 0 - Infinity)
  ELSE IF IsInfinite(b) THEN (IF IsInfinite(a) THEN NaN ELSE 0)
  ELSE IF IsInfinite(a) THEN Sign(a, b) * Infinity
  ELSE FDiv(a, b)

\* a + b of JavaScript
JsAdd(a, b) ==
  IF a = NaN \/ b = NaN THEN NaN
  ELSE IF IsInfinite(a) THEN (IF b = 0 - a THEN NaN ELSE a)
  ELSE IF IsInfinite(b) THEN b
  ELSE a + b

\* a - b of JavaScript
JsSub(a, b) == JsAdd(a, IF b = NaN THEN NaN ELSE 0 - b)

\* a * b of JavaScript
JsMul(a, b) ==
  IF a = NaN \/ b = NaN THEN NaN
  ELSE IF IsInfinite(a) \/ IsInfinite(b)
  THEN (IF a = 0 \/ b = 0 THEN NaN ELSE Sign(a, b) * Infinity)
  ELSE FMul(a, b)

\* Math.abs(x) of JavaScript
JsAbs(x) == IF x = NaN THEN NaN ELSE Abs(x)

\* x, then y.  TLC nests one evaluation per recursive call, so a loop over the
\* indices lo..hi is written by halving the range: first lo..mid, then mid+1..hi,
\* in the code's order.  TLC evaluates an argument of an operator once, when it
\* is first needed; a loop hands the state after its first half to the operator
\* that runs the second half, and Strict makes TLC compute it before going on.
Strict(x, y) == IF x = x THEN y ELSE y

\* the middle of lo..hi
Mid(lo, hi) == (lo + hi) \div 2

\* the array with the entries f[1], ..., f[n] of a function on 1..n, each
\* computed once
Array(f) == f \o <<>>

\* `v == null` of JavaScript: null, or undefined (an array hole)
IsMarker(v) == v = NULL \/ v = EMPTY

\* new Array(n).fill(null)
Nulls(n) == [i \in 1..n |-> NULL]

\* arr[idx] = v of JavaScript, idx >= 0: an index at or past the length grows the
\* array and leaves holes between the old length and idx
ArraySet(arr, idx, v) ==
  IF idx < Len(arr)
  THEN [arr EXCEPT ![idx + 1] = v]
  ELSE [j \in 1..(idx + 1) |->
          IF j <= Len(arr) THEN arr[j] ELSE IF j = idx + 1 THEN v ELSE EMPTY]

\* the entries of arr at lo..hi (1-based) that are not markers, in order
RECURSIVE ValidRange(_, _, _)
ValidRange(arr, lo, hi) ==
  IF lo > hi THEN <<>>
  ELSE IF lo = hi THEN (IF IsMarker(arr[lo]) THEN <<>> ELSE <<arr[lo]>>)
  ELSE LET mid == (lo + hi) \div 2
       IN ValidRange(arr, lo, mid) \o ValidRange(arr, mid + 1, hi)

\* arr.filter(v => v != null)
FilterValid(arr) == ValidRange(arr, 1, Len(arr))

\* data.slice(a, b).reduce((x, y) => x + y, 0), 1-based inclusive bounds
RECURSIVE SumRange(_, _, _)
SumRange(data, a, b) ==
  IF a > b THEN 0
  ELSE IF a = b THEN data[a]
  ELSE LET mid == (a + b) \div 2
       IN SumRange(data, a, mid) + SumRange(data, mid + 1, b)

\* Math.max(...arr) over the 1-based range a..b, a <= b
RECURSIVE MaxRange(_, _, _)
MaxRange(data, a, b) ==
  IF a >= b THEN data[a]
  ELSE LET mid == (a + b) \div 2
       IN Max(MaxRange(data, a, mid), MaxRange(data, mid + 1, b))

\* Math.min(...arr) over the 1-based range a..b, a <= b
RECURSIVE MinRange(_, _, _)
MinRange(data, a, b) ==
  IF a >= b THEN data[a]
  ELSE LET mid == (a + b) \div 2
       IN Min(MinRange(data, a, mid), MinRange(data, mid + 1, b))

\* floor of the square root of a natural number, by bisection on lo..hi
RECURSIVE SqrtBisect(_, _, _)
SqrtBisect(n, lo, hi) ==
  IF lo >= hi THEN lo
  ELSE LET mid == (lo + hi + 1) \div 2
       IN IF mid * mid <= n THEN SqrtBisect(n, mid, hi) ELSE SqrtBisect(n, lo, mid - 1)

\* Math.sqrt on numbers: sqrt(x / SCALE) * SCALE = sqrt(x * SCALE) = sqrt(x) * 100
FSqrt(x) ==
  IF x <= (2 ^ 30) \div SCALE
  THEN SqrtBisect(x * SCALE, 0, 46340)
  ELSE SqrtBisect(x, 0, 46340) * 100

----------------------------------------------------------------------------
(* Technical indicators *)

\* first index (0-based) that calcSMA computes
SMAStartBug(period) == period

SMAStart(period) == period - 1

\* the inner loop and the division, for the 1-based index k: the window starts
\* period - 1 entries before k
SMAMeanBug(data, k, period) == FDiv(SumRange(data, k - period + 2, k), Num(period))

SMAMean(data, k, period) == FDiv(SumRange(data, k - period + 1, k), Num(period))

calcSMA(data, period) ==
  Array([k \in 1..Len(data) |->
     IF k - 1 < SMAStart(period) THEN NULL ELSE SMAMean(data, k, period)])

\* the state after an iteration of calcEMA's loop at index i (0-based)
EmaState(e, result, i) == [ema |-> e, result |-> ArraySet(result, i, e)]

\* one iteration of calcEMA's loop at index i; st = [ema, result]
EmaStep(data, k, i, st) ==
  EmaState(FMul(data[i + 1], k) + FMul(st.ema, ONE - k), st.result, i)

\* for (let i = lo; i <= hi; i++)
RECURSIVE EmaLoop(_, _, _, _, _), EmaRest(_, _, _, _, _)
EmaLoop(data, k, lo, hi, st) ==
  IF lo > hi THEN st
  ELSE IF lo = hi THEN EmaStep(data, k, lo, st)
  ELSE EmaRest(data, k, Mid(lo, hi) + 1, hi, EmaLoop(data, k, lo, Mid(lo, hi), st))

EmaRest(data, k, lo, hi, left) == Strict(left, EmaLoop(data, k, lo, hi, left))

\* the seed and the loop
EmaFrom(data, period, k, ema) ==
  EmaLoop(data, k, period, Len(data) - 1,
          [ema |-> ema, result |-> ArraySet(Nulls(Len(data)), period - 1, ema)]).result

calcEMA(data, period) ==
  EmaFrom(data, period,
          FDiv(Num(2), Num(period + 1)),
          FDiv(SumRange(data, 1, Min(period, Len(data))), Num(period)))

\* avgLoss === 0 ? 100 : 100 - (100 / (1 + avgGain / avgLoss))
RSIValueBug(avgGain, avgLoss) ==
  IF avgLoss = 0 THEN Num(50)
  ELSE Num(100) - FDiv(Num(100), ONE + FDiv(avgGain, avgLoss))

RSIValue(avgGain, avgLoss) ==
  IF avgLoss = 0 THEN Num(100)
  ELSE JsSub(Num(100), JsDiv(Num(100), JsAdd(ONE, JsDiv(avgGain, avgLoss))))

\* first index (0-based) that calcRSI computes
RSIStartBug(period) == period - 1

RSIStart(period) == period

AddPairs(p, q) == <<p[1] + q[1], p[2] + q[2]>>

\* the loss of a fall kept with its sign
GainLossBug(delta) == IF delta > 0 THEN <<delta, 0>> ELSE <<0, delta>>

\* <<gain, loss>> of a change
GainLoss(delta) == IF delta > 0 THEN <<delta, 0>> ELSE <<0, Abs(delta)>>

\* the seeding loop over i = lo..hi (0-based): <<sum of gains, sum of losses>>
RECURSIVE RsiSeed(_, _, _)
RsiSeed(closes, lo, hi) ==
  IF lo > hi THEN <<0, 0>>
  ELSE IF lo = hi THEN GainLoss(closes[lo + 1] - closes[lo])
  ELSE AddPairs(RsiSeed(closes, lo, Mid(lo, hi)), RsiSeed(closes, Mid(lo, hi) + 1, hi))

\* Wilder smoothing of one average
Wilder(avg, period, x) == FDiv(FMul(avg, Num(period - 1)) + x, Num(period))

\* the state with the averages g and l and the RSI they give at index i (0-based)
RsiState(g, l, rsi, i) == [g |-> g, l |-> l, rsi |-> ArraySet(rsi, i, RSIValue(g, l))]

\* the smoothing of both averages by the change delta
RsiSmooth(period, i, st, delta) ==
  RsiState(Wilder(st.g, period, IF delta > 0 THEN delta ELSE 0),
           Wilder(st.l, period, IF delta < 0 THEN Abs(delta) ELSE 0),
           st.rsi, i)

\* one iteration of the smoothing loop at index i (0-based); st = [g, l, rsi]
RsiStep(closes, period, i, st) == RsiSmooth(period, i, st, closes[i + 1] - closes[i])

\* for (let i = lo; i <= hi; i++)
RECURSIVE RsiLoop(_, _, _, _, _), RsiRest(_, _, _, _, _)
RsiLoop(closes, period, lo, hi, st) ==
  IF lo > hi THEN st
  ELSE IF lo = hi THEN RsiStep(closes, period, lo, st)
  ELSE RsiRest(closes, period, Mid(lo, hi) + 1, hi,
               RsiLoop(closes, period, lo, Mid(lo, hi), st))

RsiRest(closes, period, lo, hi, left) ==
  Strict(left, RsiLoop(closes, period, lo, hi, left))

\* the averages after the seeding loop, the first value and the smoothing loop
RsiFrom(closes, period, s) ==
  RsiLoop(closes, period, RSIStart(period) + 1, Len(closes) - 1,
          RsiState(FDiv(s[1], Num(period)), FDiv(s[2], Num(period)),
                   Nulls(Len(closes)), RSIStart(period))).rsi

calcRSI(closes, period) ==
  IF Len(closes) < RSIStart(period) + 1 THEN Nulls(Len(closes))
  ELSE RsiFrom(closes, period, RsiSeed(closes, 1, period))

\* Math.max(high - low, |high - prevClose|, |low - prevClose|) at index i >= 1
TrueRange(highs, lows, closes, i) ==
  Max(highs[i + 1] - lows[i + 1],
      Max(Abs(highs[i + 1] - closes[i]), Abs(lows[i + 1] - closes[i])))

\* tr = [0], then one push per index 1..closes.length-1
TRSeries(highs, lows, closes) ==
  Array([j \in 1..Max(1, Len(closes)) |->
     IF j = 1 THEN 0 ELSE TrueRange(highs, lows, closes, j - 1)])

calcATR(highs, lows, closes, period) ==
  calcSMA(TRSeries(highs, lows, closes), period)

PlusDM(highs, lows) ==
  Array([j \in 1..Max(1, Len(highs)) |->
     IF j = 1 THEN 0
     ELSE LET upMove   == highs[j] - highs[j - 1]
              downMove == lows[j - 1] - lows[j]
          IN IF upMove > downMove /\ upMove > 0 THEN upMove ELSE 0])

MinusDM(highs, lows) ==
  Array([j \in 1..Max(1, Len(highs)) |->
     IF j = 1 THEN 0
     ELSE LET upMove   == highs[j] - highs[j - 1]
              downMove == lows[j - 1] - lows[j]
          IN IF downMove > upMove /\ downMove > 0 THEN downMove ELSE 0])

\* one entry of dx
DXFrom(plusDI, minusDI, sum) ==
  IF sum = 0 THEN 0 ELSE JsMul(JsDiv(JsAbs(JsSub(plusDI, minusDI)), sum), Num(100))

DXValue(sTR, sPlus, sMinus) ==
  IF IsMarker(sTR) \/ sTR = 0 THEN 0
  ELSE DXFrom(JsMul(JsDiv(sPlus, sTR), Num(100)),
              JsMul(JsDiv(sMinus, sTR), Num(100)),
              JsAdd(JsMul(JsDiv(sPlus, sTR), Num(100)), JsMul(JsDiv(sMinus, sTR), Num(100))))

\* least length for which calcADX computes anything
ADXMinBars(period) == period * 2

\* dx, from the three smoothed series
DXSeries(smoothTR, smoothPlusDM, smoothMinusDM) ==
  Array([j \in 1..Len(smoothTR) |-> DXValue(smoothTR[j], smoothPlusDM[j], smoothMinusDM[j])])

calcADX(highs, lows, closes, period) ==
  IF Len(closes) < ADXMinBars(period) THEN Nulls(Len(closes))
  ELSE calcEMA(DXSeries(calcEMA(TRSeries(highs, lows, closes), period),
                        calcEMA(PlusDM(highs, lows), period),
                        calcEMA(MinusDM(highs, lows), period)),
               period)

\* a[j] - b[j] where both are computed, else null
Differences(a, b) ==
  Array([j \in 1..Len(a) |->
     IF ~IsMarker(a[j]) /\ ~IsMarker(b[j]) THEN a[j] - b[j] ELSE NULL])

\* new Array(macdLine.length - validMACD.length).fill(null).concat(signalLine)
PadSignal(macdLine, validMACD, signal) ==
  Nulls(Len(macdLine) - Len(validMACD)) \o calcEMA(validMACD, signal)

\* the returned object, from the macd line and the padded signal line
MACDResult(macdLine, padded) ==
  [macd |-> macdLine, signal |-> padded, histogram |-> Differences(macdLine, padded)]

\* the signal line and the histogram, from the macd line
MACDFrom(macdLine, signal) ==
  MACDResult(macdLine, PadSignal(macdLine, FilterValid(macdLine), signal))

calcMACD(closes, fast, slow, signal) ==
  MACDFrom(Differences(calcEMA(closes, fast), calcEMA(closes, slow)), signal)

\* sum over j = a..b (1-based) of (closes[j] - mean) ** 2
RECURSIVE SumSq(_, _, _, _)
SumSq(closes, mean, a, b) ==
  IF a > b THEN 0
  ELSE IF a = b THEN FMul(closes[a] - mean, closes[a] - mean)
  ELSE LET mid == (a + b) \div 2
       IN SumSq(closes, mean, a, mid) + SumSq(closes, mean, mid + 1, b)

\* stdDev * std at every index that has a moving average
BandWidths(closes, sma, period, stdDev) ==
  Array([i \in 1..Len(closes) |->
     IF IsMarker(sma[i]) THEN NULL
     ELSE FMul(Num(stdDev),
               FSqrt(FDiv(SumSq(closes, sma[i], i - period + 1, i), Num(period))))])

\* the returned object, from the moving average and the band widths
Bands(sma, width) ==
  [upper  |-> Array([i \in 1..Len(sma) |->
                      IF IsMarker(sma[i]) THEN NULL ELSE sma[i] + width[i]]),
   middle |-> sma,
   lower  |-> Array([i \in 1..Len(sma) |->
                      IF IsMarker(sma[i]) THEN NULL ELSE sma[i] - width[i]])]

BandsAround(closes, sma, period, stdDev) ==
  Bands(sma, BandWidths(closes, sma, period, stdDev))

calcBollingerBands(closes, period, stdDev) ==
  BandsAround(closes, calcSMA(closes, period), period, stdDev)

----------------------------------------------------------------------------
(* State *)

VARIABLES
  indPc,      \* indicator call: "input" before the call, "ret" after it
  indCloses,  \* the series handed to the indicator
  indCall,    \* the call made: function name and parameters
  indRet,     \* what the call returned
  opPc,       \* top-level operation: "idle", "loop" (inside backtestRSI's loop), "done"
  op,         \* the operation called and its parameters
  resp,       \* what yahooChart returned
  quote,      \* getQuote: const q
  headlines,  \* getSentiment: const headlines
  rsi,        \* backtestRSI: const rsi
  i,          \* backtestRSI: the loop index
  position,   \* backtestRSI: let position
  cash,       \* backtestRSI: let cash
  trades,     \* backtestRSI: let trades
  tradeLog,   \* backtestRSI: const tradeLog
  result,     \* what the operation returned
  scanPc,     \* watchlist scan: "idle", "loop", "done", "raised"
  scan,       \* the scan called and its parameters
  bucket,     \* the per-symbol loop the scan is in
  symIdx,     \* the 1-based place in WATCHLIST of the symbol the loop is at
  quotes,     \* const quotes
  seen,       \* what the provider answered for each symbol of the loop so far
  results,    \* the loop's results array
  ideas,      \* generateIdeas: valTop, momoTop, qualTop, incTop
  scanRet,    \* what the scan returned
  calls,      \* two scan invocations under way at once: the locals of each
  net         \* the fetches in flight

indVars == <<indPc, indCloses, indCall, indRet>>

btVars == <<rsi, i, position, cash, trades, tradeLog>>

fetchVars == <<resp, quote, headlines>>

opVars == <<opPc, op, resp, quote, headlines, rsi, i, position, cash, trades, tradeLog, result>>

scanVars == <<scanPc, scan, bucket, symIdx, quotes, seen, results, ideas, scanRet>>

pairVars == <<calls, net>>

vars == <<indPc, indCloses, indCall, indRet,
          opPc, op, resp, quote, headlines,
          rsi, i, position, cash, trades, tradeLog, result,
          scanPc, scan, bucket, symIdx, quotes, seen, results, ideas, scanRet,
          calls, net>>

\* no indicator call under way
IndIdle ==
  /\ indPc = "off"
  /\ indCloses = <<>>
  /\ indCall = [fn |-> "none"]
  /\ indRet = <<>>

\* no top-level operation under way
OpIdle ==
  /\ opPc = "idle"
  /\ op = [name |-> "none"]
  /\ resp = [isNull |-> TRUE, rows |-> <<>>]
  /\ quote = [price |-> NULL]
  /\ headlines = <<>>
  /\ rsi = <<>>
  /\ i = 0
  /\ position = 0
  /\ cash = 0
  /\ trades = 0
  /\ tradeLog = <<>>
  /\ result = [error |-> "none"]

\* no watchlist scan under way
ScanIdle ==
  /\ scanPc = "idle"
  /\ scan = [name |-> "none"]
  /\ bucket = "none"
  /\ symIdx = 0
  /\ quotes = <<>>
  /\ seen = <<>>
  /\ results = <<>>
  /\ ideas = <<>>
  /\ scanRet = <<>>

\* the invocations that may be under way at once
CallIds == {1, 2}

\* an invocation that has not been made: no locals yet
NoCall ==
  [pc |-> "idle", name |-> "none", n |-> 0, quotes |-> <<>>, k |-> 0,
   results |-> <<>>, replies |-> <<>>, fetched |-> <<>>, ret |-> <<>>]

\* no invocation under way, no fetch in flight
PairIdle ==
  /\ calls = [c \in CallIds |-> NoCall]
  /\ net = {}

----------------------------------------------------------------------------
(* Indicator calls on arbitrary short series *)

MaxLen == 4

MaxVal == 4

MaxPeriod == 3

\* how far the highs lie above, and the lows below, the closes
Offsets == {0, 1}

Prices == {Num(v) : v \in 1..MaxVal}

RECURSIVE SeqsUpTo(_, _)
SeqsUpTo(S, n) ==
  IF n = 0 THEN {<<>>}
  ELSE LET shorter == SeqsUpTo(S, n - 1)
       IN shorter \cup {Append(q, x) : q \in {r \in shorter : Len(r) = n - 1}, x \in S}

Periods == 1..MaxPeriod

Shift(data, d) == [j \in 1..Len(data) |-> data[j] + d]

\* a long run: one rise by 1 from 40, then a fall by 2 at every bar
LongFall ==
  [j \in 1..(4 * MaxLen) |-> IF j = 1 THEN Num(40) ELSE Num(43 - 2 * (j - 1))]

IndInit ==
  /\ indPc = "input"
  /\ indCloses \in SeqsUpTo(Prices, MaxLen) \cup {LongFall}
  /\ indCall = [fn |-> "none"]
  /\ indRet = <<>>
  /\ OpIdle
  /\ ScanIdle
  /\ PairIdle

Ret(call, value) ==
  /\ indPc = "input"
  /\ indPc' = "ret"
  /\ indCall' = call
  /\ indRet' = value
  /\ UNCHANGED indCloses
  /\ UNCHANGED <<opVars, scanVars, pairVars>>

RunSMA ==
  \E p \in Periods :
    Ret([fn |-> "calcSMA", period |-> p], calcSMA(indCloses, p))

RunEMA ==
  \E p \in Periods :
    Ret([fn |-> "calcEMA", period |-> p], calcEMA(indCloses, p))

RunRSI ==
  \E p \in Periods :
    Ret([fn |-> "calcRSI", period |-> p], calcRSI(indCloses, p))

RunATR ==
  \E p \in Periods, up \in Offsets, dn \in Offsets :
    Ret([fn |-> "calcATR", period |-> p, up |-> up, dn |-> dn],
        calcATR(Shift(indCloses, Num(up)), Shift(indCloses, 0 - Num(dn)), indCloses, p))

RunADX ==
  \E p \in Periods, up \in Offsets, dn \in Offsets :
    Ret([fn |-> "calcADX", period |-> p, up |-> up, dn |-> dn],
        calcADX(Shift(indCloses, Num(up)), Shift(indCloses, 0 - Num(dn)), indCloses, p))

RunBB ==
  \E p \in Periods :
    Ret([fn |-> "calcBollingerBands", period |-> p],
        calcBollingerBands(indCloses, p, 2))

RunMACD ==
  \E f \in Periods, s \in Periods, g \in Periods :
    /\ f < s
    /\ Ret([fn |-> "calcMACD", fast |-> f, slow |-> s, signal |-> g],
           calcMACD(indCloses, f, s, g))


----------------------------------------------------------------------------
(* JavaScript coercions used by the top-level operations *)

\* a || b
OrElse(a, b) == IF IsMarker(a) \/ a = 0 THEN b ELSE a

\* a ?? b
Coalesce(a, b) == IF IsMarker(a) THEN b ELSE a

\* null compares as 0; undefined and {} compare as NaN, which makes every
\* comparison false
ToNumber(v) == IF v = NULL THEN 0 ELSE v

IsNaN(v) == v = EMPTY \/ v = OBJECT

JsLt(a, b) == ~IsNaN(a) /\ ~IsNaN(b) /\ ToNumber(a) < ToNumber(b)

JsGt(a, b) == ~IsNaN(a) /\ ~IsNaN(b) /\ ToNumber(a) > ToNumber(b)

JsLe(a, b) == ~IsNaN(a) /\ ~IsNaN(b) /\ ToNumber(a) <= ToNumber(b)

JsGe(a, b) == ~IsNaN(a) /\ ~IsNaN(b) /\ ToNumber(a) >= ToNumber(b)

\* arr.pop(): undefined on an empty array
Pop(arr) == IF arr = <<>> THEN EMPTY ELSE arr[Len(arr)]

\* arr.filter(v => v != null).pop()
LastValid(arr) == Pop(FilterValid(arr))

\* +x.toFixed(d), with unit = SCALE / 10^d: x rounded to a multiple of unit
RoundTo(x, unit) ==
  IF x >= 0 THEN ((x + unit \div 2) \div unit) * unit
  ELSE 0 - (((0 - x) + unit \div 2) \div unit) * unit

\* the same taking the first k entries: arr.slice(0, k)
LastKBug(arr, k) == SubSeq(arr, 1, Min(k, Len(arr)))

\* arr.slice(-k)
LastK(arr, k) == SubSeq(arr, Max(1, Len(arr) - k + 1), Len(arr))

Column(rows, f) == Array([j \in 1..Len(rows) |-> rows[j][f]])

\* strings the program changes the case of or searches in are sequences of
\* one-letter strings
LowerLetters ==
  <<"a", "b", "c", "d", "e", "f", "g", "h", "i", "j", "k", "l", "m",
    "n", "o", "p", "q", "r", "s", "t", "u", "v", "w", "x", "y", "z">>

UpperLetters ==
  <<"A", "B", "C", "D", "E", "F", "G", "H", "I", "J", "K", "L", "M",
    "N", "O", "P", "Q", "R", "S", "T", "U", "V", "W", "X", "Y", "Z">>

\* the letter of `to` at the place c has in `from`; c itself when it has none
MapLetter(c, from, to) ==
  IF \E k \in 1..Len(from) : from[k] = c
  THEN to[CHOOSE k \in 1..Len(from) : from[k] = c]
  ELSE c

\* str.toUpperCase()
toUpperCase(str) == [k \in 1..Len(str) |-> MapLetter(str[k], LowerLetters, UpperLetters)]

\* str.toLowerCase()
toLowerCase(str) == [k \in 1..Len(str) |-> MapLetter(str[k], UpperLetters, LowerLetters)]

\* str.includes(w)
includes(str, w) ==
  \E k \in 0..(Len(str) - Len(w)) : \A j \in 1..Len(w) : str[k + j] = w[j]

----------------------------------------------------------------------------
(* Provider responses: price series, quotes, headlines *)

\* extra bars, beyond the least an operation accepts, that a fetched series may have
ExtraBars == 1

\* price step of the modelled series: 0.05
Unit == SCALE \div 20

Steps == {0 - 3 * Unit, 0 - Unit, Unit, 3 * Unit}

BasePrice == Num(5)

Clamp(x, lo, hi) == Max(lo, Min(hi, x))

\* the close of bar j (1-based) of a series made of four runs of constant step
CloseAt(sh, j) ==
  BasePrice
    + sh.d1 * Clamp(j - 1, 0, sh.l1)
    + sh.d2 * Clamp(j - 1 - sh.l1, 0, sh.l2)
    + sh.d3 * Clamp(j - 1 - sh.l1 - sh.l2, 0, sh.l3)
    + sh.d4 * Max(0, j - 1 - sh.l1 - sh.l2 - sh.l3)

\* the bars of the provider's chart payload: timestamps in whole days, ascending
BarsOf(sh) ==
  [j \in 1..sh.n |->
     [timestamp |-> j - 1,
      open      |-> CloseAt(sh, j),
      high      |-> CloseAt(sh, j) + Unit,
      low       |-> CloseAt(sh, j) - Unit,
      close     |-> CloseAt(sh, j),
      volume    |-> Num(1 + (j % 3))]]

\* the close of bar j of a series that stays at the base price, or that is at
\* the base price and at its negative in turn
LevelClose(swing, j) == IF swing /\ j % 2 = 0 THEN 0 - BasePrice ELSE BasePrice

LevelBars(n, swing) ==
  [j \in 1..n |->
     [timestamp |-> j - 1,
      open      |-> LevelClose(swing, j),
      high      |-> LevelClose(swing, j) + Unit,
      low       |-> LevelClose(swing, j) - Unit,
      close     |-> LevelClose(swing, j),
      volume    |-> Num(1 + (j % 3))]]

\* the same payload with no close for bar k and no volume for the last bar
WithGap(bars, k) ==
  [j \in 1..Len(bars) |->
     IF j = k THEN [bars[j] EXCEPT !.close = NULL]
     ELSE IF j = Len(bars) THEN [bars[j] EXCEPT !.volume = NULL]
     ELSE bars[j]]

Positive(sh) == \A j \in 1..sh.n : CloseAt(sh, j) - Unit > 0

\* series of the given lengths whose first run has a length in l1s and whose
\* third run has a length in l3s; consecutive runs differ in their step
Shapes(lengths, l1s, l3s) ==
  {sh \in [n : lengths, l1 : l1s, l2 : {8}, l3 : l3s,
           d1 : Steps, d2 : Steps, d3 : Steps, d4 : Steps] :
     /\ sh.d1 # sh.d2 /\ sh.d2 # sh.d3 /\ sh.d3 # sh.d4
     /\ Positive(sh)}

\* a series too short for any operation that has a least length
ShortShapes(lengths) ==
  {sh \in [n : lengths, l1 : {15}, l2 : {8}, l3 : {8},
           d1 : {Unit}, d2 : {0 - Unit}, d3 : {Unit}, d4 : {0 - Unit}] : TRUE}

Data(bars) == [kind |-> "data", bars |-> bars]

\* the lengths of the series an operation that needs `least` bars accepts
Enough(least) == least..(least + ExtraBars)

\* what the chart endpoint may answer to an operation that needs at least
\* `least` bars: a failed fetch, a payload without a result, payloads of 0,
\* least - 1 and least bars (one of the latter without a close), and the given
\* payloads of enough bars
RawCharts(least, shapes) ==
  {[kind |-> "throws"], [kind |-> "noResult"]}
    \cup {Data(BarsOf(sh)) : sh \in ShortShapes({0, least - 1})}
    \cup {Data(WithGap(BarsOf(sh), 2)) : sh \in ShortShapes({least})}
    \cup {Data(BarsOf(sh)) : sh \in shapes}

NullChart == [isNull |-> TRUE, rows |-> <<>>]

\* rows.push({date, open, high, low, close, volume: v || 0}) for the bars lo..hi
\* that have a close
RECURSIVE RowsRange(_, _, _)
RowsRange(bars, lo, hi) ==
  IF lo > hi THEN <<>>
  ELSE IF lo = hi
  THEN LET bar == bars[lo]
       IN IF IsMarker(bar.close) THEN <<>>
          ELSE <<[date   |-> bar.timestamp,
                  open   |-> bar.open,
                  high   |-> bar.high,
                  low    |-> bar.low,
                  close  |-> bar.close,
                  volume |-> OrElse(bar.volume, 0)]>>
  ELSE LET mid == (lo + hi) \div 2
       IN RowsRange(bars, lo, mid) \o RowsRange(bars, mid + 1, hi)

\* null when the fetch throws or the payload has no result, else the rows
yahooChart(raw) ==
  IF raw.kind # "data" THEN NullChart
  ELSE [isNull |-> FALSE, rows |-> RowsRange(raw.bars, 1, Len(raw.bars))]

----------------------------------------------------------------------------
(* quantStats *)

\* ln 2
LN2 == (SCALE * 6931) \div 10000

\* x = m * 2^k with 1 <= m < 2: <<m, k>>
RECURSIVE LnReduce(_, _)
LnReduce(x, k) ==
  IF x >= 2 * ONE THEN LnReduce(x \div 2, k + 1)
  ELSE IF x < ONE THEN LnReduce(x * 2, k - 1)
  ELSE <<x, k>>

\* Math.log(x), x > 0: k ln 2 + 2 atanh((m - 1) / (m + 1)), by the series of atanh
FLn(x) ==
  LET r  == LnReduce(x, 0)
      z  == FDiv(r[1] - ONE, r[1] + ONE)
      z2 == FMul(z, z)
      z3 == FMul(z, z2)
      z5 == FMul(z3, z2)
      z7 == FMul(z5, z2)
  IN r[2] * LN2 + 2 * (z + z3 \div 3 + z5 \div 5 + z7 \div 7)

\* Math.exp(y): 2^k e^r with y = k ln 2 + r, 0 <= r < ln 2, by the series of exp
FExp(y) ==
  LET k  == y \div LN2
      r  == y - k * LN2
      r2 == FMul(r, r)
      r3 == FMul(r2, r)
      r4 == FMul(r3, r)
      r5 == FMul(r4, r)
      r6 == FMul(r5, r)
      e  == ONE + r + r2 \div 2 + r3 \div 6 + r4 \div 24 + r5 \div 120 + r6 \div 720
  IN IF k >= 0 THEN e * (2 ^ k)
     ELSE IF k < 0 - 30 THEN 0
     ELSE e \div (2 ^ (0 - k))

\* Math.pow(x, y) for x > 0
Pow(x, y) ==
  IF x = ONE THEN ONE
  ELSE IF y = ONE THEN x
  ELSE FExp(FMul(y, FLn(x)))

\* days in a year: 365.25
DaysPerYear == Num(365) + SCALE \div 4

\* trading days in a year, under the root: Math.sqrt(252)
TradingDays == Num(252)

\* (closes[i] - closes[i - 1]) / closes[i - 1] for i = 1..n-1 (0-based)
DailyReturns(closes) ==
  Array([k \in 1..(Len(closes) - 1) |-> FDiv(closes[k + 1] - closes[k], closes[k])])

\* sum over lo..hi of (b - mean) ** 2, kept at SCALE * SCALE
RECURSIVE WideSumSq(_, _, _, _)
WideSumSq(xs, mean, lo, hi) ==
  IF lo > hi THEN 0
  ELSE IF lo = hi THEN (xs[lo] - mean) * (xs[lo] - mean)
  ELSE LET mid == (lo + hi) \div 2
       IN WideSumSq(xs, mean, lo, mid) + WideSumSq(xs, mean, mid + 1, hi)

\* Math.sqrt of a value kept at SCALE * SCALE
WideSqrt(w) == SqrtBisect(w, 0, 46340)

\* the state with the peak and the drawdown of close c
DrawdownState(c, peak, maxDD) ==
  [peak |-> peak, maxDD |-> Min(FDiv(c - peak, peak), maxDD)]

\* one iteration of the drawdown loop; st = [peak, maxDD]
DrawdownStepBug(closes, j, st) == DrawdownState(closes[j], st.peak, st.maxDD)

DrawdownStep(closes, j, st) ==
  DrawdownState(closes[j], Max(closes[j], st.peak), st.maxDD)

\* for (const c of closes), over the bars lo..hi
RECURSIVE DrawdownLoop(_, _, _, _), DrawdownRest(_, _, _, _)
DrawdownLoop(closes, lo, hi, st) ==
  IF lo > hi THEN st
  ELSE IF lo = hi THEN DrawdownStep(closes, lo, st)
  ELSE DrawdownRest(closes, Mid(lo, hi) + 1, hi, DrawdownLoop(closes, lo, Mid(lo, hi), st))

DrawdownRest(closes, lo, hi, left) == Strict(left, DrawdownLoop(closes, lo, hi, left))

\* annualVol !== 0 ? annualReturn / annualVol : null; null / x is 0 / x
SharpeOfBug(annualReturn, annualVol) == JsDiv(ToNumber(annualReturn), annualVol)

SharpeOf(annualReturn, annualVol) ==
  IF annualVol # 0 THEN JsDiv(ToNumber(annualReturn), annualVol) ELSE NULL

\* the returned object, from the returns, the volatility and the drawdown
StatsResult(rows, totalReturn, annualReturn, annualVol, maxDD, nDays) ==
  [total_return  |-> totalReturn,
   annual_return |-> annualReturn,
   annual_vol    |-> annualVol,
   sharpe        |-> SharpeOf(annualReturn, annualVol),
   max_drawdown  |-> maxDD,
   data_points   |-> Len(rows),
   period_days   |-> nDays]

\* Math.sqrt(variance) * Math.sqrt(252), from the daily returns and their mean
AnnualVol(dailyReturns, mean) ==
  FMul(WideSqrt(WideSumSq(dailyReturns, mean, 1, Len(dailyReturns)) \div Len(dailyReturns)),
       FSqrt(TradingDays))

\* nYears > 0 ? Math.pow(1 + totalReturn, 1 / nYears) - 1 : null
AnnualReturn(totalReturn, nDays) ==
  IF FDiv(nDays, DaysPerYear) > 0
  THEN Pow(ONE + totalReturn, FDiv(DaysPerYear, nDays)) - ONE
  ELSE NULL

\* the statistics of at least two rows
StatsFromBug(rows, closes, dailyReturns, nDays) ==
  StatsResult(rows,
              FDiv(closes[Len(closes)], closes[1]),
              AnnualReturn(FDiv(closes[Len(closes)], closes[1]) - ONE, nDays),
              AnnualVol(dailyReturns,
                        FDiv(SumRange(dailyReturns, 1, Len(dailyReturns)),
                             Num(Len(dailyReturns)))),
              DrawdownLoop(closes, 1, Len(closes), [peak |-> closes[1], maxDD |-> 0]).maxDD,
              nDays)

StatsFrom(rows, closes, dailyReturns, nDays) ==
  StatsResult(rows,
              FDiv(closes[Len(closes)], closes[1]) - ONE,
              AnnualReturn(FDiv(closes[Len(closes)], closes[1]) - ONE, nDays),
              AnnualVol(dailyReturns,
                        FDiv(SumRange(dailyReturns, 1, Len(dailyReturns)),
                             Num(Len(dailyReturns)))),
              DrawdownLoop(closes, 1, Len(closes), [peak |-> closes[1], maxDD |-> 0]).maxDD,
              nDays)

quantStats(chart) ==
  IF chart.isNull \/ Len(chart.rows) < 2
  THEN [total_return |-> NULL, annual_return |-> NULL, annual_vol |-> NULL,
        sharpe |-> NULL, max_drawdown |-> NULL]
  ELSE StatsFrom(chart.rows, Column(chart.rows, "close"),
                 DailyReturns(Column(chart.rows, "close")),
                 Num(chart.rows[Len(chart.rows)].date - chart.rows[1].date))

\* days between two bars of a series handed to quantStats on its own
StatsGaps == {365, 730}

\* the price the closes of such a series lie above
StatsFloor == Num(4)

\* rows of the closes given, floor added, one bar every `gap` days
StatsRows(closes, gap) ==
  [j \in 1..Len(closes) |-> [date |-> (j - 1) * gap, close |-> StatsFloor + closes[j]]]

RunStats ==
  \E gap \in StatsGaps :
    Ret([fn |-> "quantStats", gap |-> gap],
        quantStats([isNull |-> FALSE, rows |-> StatsRows(indCloses, gap)]))

IndNext ==
  \/ RunSMA
  \/ RunEMA
  \/ RunRSI
  \/ RunATR
  \/ RunADX
  \/ RunBB
  \/ RunMACD
  \/ RunStats

SpecInd == IndInit /\ [][IndNext]_vars

----------------------------------------------------------------------------
(* backtestRSI *)

\* calcRSI(closes, period = 14)
RSIPeriod == 14

\* rows.length < 50
BacktestMinBars == 50

\* tradeLog.slice(-6)
LastTradesShown == 6

\* (buyThreshold, sellThreshold): the defaults 30/70 and an inverted pair
ThresholdPairs == {<<Num(30), Num(70)>>, <<Num(60), Num(40)>>}

\* what reading a property of null or undefined throws
TypeError == [exception |-> "TypeError"]

\* !rows || rows.length < least
TooFewBarsBug(chart, least) == chart.isNull \/ Len(chart.rows) < least - 1

TooFewBars(chart, least) == chart.isNull \/ Len(chart.rows) < least

Closes == Column(resp.rows, "close")

\* rsi[i] < buyThreshold && position === 0
BuySignalBug(r, buyThreshold, pos) == r < buyThreshold

BuySignalInverted(r, buyThreshold, pos) == r > buyThreshold /\ pos = 0

BuySignal(r, buyThreshold, pos) == r < buyThreshold /\ pos = 0

\* rsi[i] > sellThreshold && position > 0
SellSignalBug(r, sellThreshold, pos) == r > sellThreshold

SellSignal(r, sellThreshold, pos) == r > sellThreshold /\ pos > 0

Trade(type, row, r) == [type |-> type, price |-> row.close, date |-> row.date, rsi |-> r]

\* the series the backtest is run on
BacktestShapes == Shapes(Enough(BacktestMinBars), {15}, {8, 12})

\* the fetch, the length check, calcRSI and the loop's initial state
BacktestStart ==
  \E raw \in RawCharts(BacktestMinBars, BacktestShapes), th \in ThresholdPairs :
   LET chart == yahooChart(raw) IN
    /\ opPc = "idle"
    /\ op' = [name |-> "backtestRSI", buyThreshold |-> th[1], sellThreshold |-> th[2]]
    /\ resp' = chart
    /\ UNCHANGED <<quote, headlines>>
    /\ IF TooFewBars(chart, BacktestMinBars)
       THEN /\ opPc' = "done"
            /\ result' = [error |-> "Not enough data for backtest"]
            /\ UNCHANGED btVars
       ELSE IF chart.isNull
       THEN /\ opPc' = "raised"
            /\ result' = TypeError
            /\ UNCHANGED btVars
       ELSE /\ opPc' = "loop"
            /\ rsi' = calcRSI(Column(chart.rows, "close"), RSIPeriod)
            /\ position' = 0
            /\ cash' = ONE
            /\ trades' = 0
            /\ tradeLog' = <<>>
            /\ i' = 1
            /\ UNCHANGED result
    /\ UNCHANGED <<indVars, scanVars, pairVars>>

\* one iteration of for (let i = 1; i < closes.length; i++)
BacktestBar ==
  /\ opPc = "loop"
  /\ i < Len(Closes)
  /\ LET r   == rsi[i + 1]
         row == resp.rows[i + 1]
     IN IF IsMarker(r)
        THEN UNCHANGED <<position, cash, trades, tradeLog>>
        ELSE IF BuySignal(r, op.buyThreshold, position)
        THEN /\ position' = FDiv(cash, row.close)
             /\ cash' = 0
             /\ trades' = trades + 1
             /\ tradeLog' = Append(tradeLog, Trade("BUY", row, r))
        ELSE IF SellSignal(r, op.sellThreshold, position)
        THEN /\ cash' = FMul(position, row.close)
             /\ position' = 0
             /\ trades' = trades + 1
             /\ tradeLog' = Append(tradeLog, Trade("SELL", row, r))
        ELSE UNCHANGED <<position, cash, trades, tradeLog>>
  /\ i' = i + 1
  /\ UNCHANGED <<opPc, op, resp, quote, headlines, rsi, result>>
  /\ UNCHANGED <<indVars, scanVars, pairVars>>

\* if (position > 0) { cash = position * lastClose; position = 0; }
ForcedExitBug(pos, csh, n, log, lastRow, r) ==
  IF pos > 0
  THEN [cash |-> FMul(pos, lastRow.close), position |-> 0, trades |-> n + 1,
        tradeLog |-> Append(log, Trade("SELL", lastRow, r))]
  ELSE [cash |-> csh, position |-> pos, trades |-> n, tradeLog |-> log]

ForcedExit(pos, csh, n, log, lastRow, r) ==
  IF pos > 0
  THEN [cash |-> FMul(pos, lastRow.close), position |-> 0, trades |-> n, tradeLog |-> log]
  ELSE [cash |-> csh, position |-> pos, trades |-> n, tradeLog |-> log]

\* the loop's exit: the forced exit and the returned object
BacktestFinish ==
  /\ opPc = "loop"
  /\ i >= Len(Closes)
  /\ LET n   == Len(Closes)
         out == ForcedExit(position, cash, trades, tradeLog, resp.rows[n], rsi[n])
     IN /\ cash' = out.cash
        /\ position' = out.position
        /\ trades' = out.trades
        /\ tradeLog' = out.tradeLog
        /\ result' = [ticker          |-> "TICKER",
                      total_return    |-> out.cash - ONE,
                      buy_hold_return |-> FDiv(Closes[n], Closes[1]) - ONE,
                      trades          |-> out.trades,
                      latest_rsi      |-> LastValid(rsi),
                      start_date      |-> resp.rows[1].date,
                      end_date        |-> resp.rows[n].date,
                      last_trades     |-> LastK(out.tradeLog, LastTradesShown)]
  /\ opPc' = "done"
  /\ UNCHANGED <<op, resp, quote, headlines, rsi, i>>
  /\ UNCHANGED <<indVars, scanVars, pairVars>>

----------------------------------------------------------------------------
(* getQuote *)

\* the symbols a caller may ask about, as typed
Tickers == {<<"a", "a", "p", "l">>, <<"M", "S", "F", "T">>}

\* an item of the quote payload for symbol s; a field the payload lacks is EMPTY
QuoteItem(s, price, pct, fpe, tpe, short) ==
  [symbol                      |-> s,
   regularMarketPrice          |-> price,
   regularMarketChangePercent  |-> pct,
   regularMarketPreviousClose  |-> Num(10),
   regularMarketChange         |-> Unit,
   marketState                 |-> 1,
   shortName                   |-> short,
   longName                    |-> 2,
   regularMarketVolume         |-> Num(3),
   marketCap                   |-> Num(40),
   fiftyTwoWeekHigh            |-> Num(12),
   fiftyTwoWeekLow             |-> Num(8),
   forwardPE                   |-> fpe,
   trailingPE                  |-> tpe,
   dividendYield               |-> EMPTY,
   epsTrailingTwelveMonths     |-> Unit]

QuoteItems(s) ==
  {QuoteItem(s, price, pct, fpe, tpe, short) :
     price \in {Num(10) + Unit, NULL, EMPTY},
     pct   \in {12345, 0 - 12355, NULL},
     fpe   \in {Num(15), 0, EMPTY},
     tpe   \in {Num(20), EMPTY},
     short \in {1, EMPTY}}

\* what the quote endpoint may answer when asked about symbol s: a failed fetch,
\* no items, an item for another symbol, an item for s
RawQuotes(s) ==
  {[kind |-> "throws"], [kind |-> "data", items |-> <<>>]}
    \cup {[kind |-> "data", items |-> <<item>>] : item \in QuoteItems(<<"X">>)}
    \cup {[kind |-> "data", items |-> <<item>>] : item \in QuoteItems(s)}

\* out[s] = { price: null, pct: null, prev: null, change: null, state: null }
DefaultQuote ==
  [price |-> NULL, pct |-> NULL, prev |-> NULL, change |-> NULL, state |-> NULL,
   name |-> EMPTY, volume |-> EMPTY, marketCap |-> EMPTY,
   fiftyTwoWeekHigh |-> EMPTY, fiftyTwoWeekLow |-> EMPTY, forwardPE |-> EMPTY,
   trailingPE |-> EMPTY, dividendYield |-> EMPTY, epsTrailingTwelveMonths |-> EMPTY]

\* the fields yahooQuoteBatch copies from an item, each `?? null`
FromItem(item, s) ==
  [price                   |-> Coalesce(item.regularMarketPrice, NULL),
   pct                     |-> Coalesce(item.regularMarketChangePercent, NULL),
   prev                    |-> Coalesce(item.regularMarketPreviousClose, NULL),
   change                  |-> Coalesce(item.regularMarketChange, NULL),
   state                   |-> Coalesce(item.marketState, NULL),
   name                    |-> Coalesce(item.shortName, Coalesce(item.longName, s)),
   volume                  |-> Coalesce(item.regularMarketVolume, NULL),
   marketCap               |-> Coalesce(item.marketCap, NULL),
   fiftyTwoWeekHigh        |-> Coalesce(item.fiftyTwoWeekHigh, NULL),
   fiftyTwoWeekLow         |-> Coalesce(item.fiftyTwoWeekLow, NULL),
   forwardPE               |-> Coalesce(item.forwardPE, NULL),
   trailingPE              |-> Coalesce(item.trailingPE, NULL),
   dividendYield           |-> Coalesce(item.dividendYield, NULL),
   epsTrailingTwelveMonths |-> Coalesce(item.epsTrailingTwelveMonths, NULL)]

\* one entry per asked symbol: the defaults, overwritten by the payload's items
\* in their order; a fetch that throws leaves the defaults
yahooQuoteBatch(symbols, raw) ==
  [s \in {symbols[k] : k \in 1..Len(symbols)} |->
     LET items == IF raw.kind = "data" THEN raw.items ELSE <<>>
         at    == {k \in 1..Len(items) : items[k].symbol = s}
     IN IF at = {} THEN DefaultQuote
        ELSE FromItem(items[CHOOSE k \in at : \A j \in at : j <= k], s)]

\* !q || q.price == null
NoPrice(q) == IsMarker(q.price)

\* q.pct != null ? +q.pct.toFixed(2) : null; toFixed throws on undefined
QuoteResult(ticker, q) ==
  [ticker         |-> ticker,
   name           |-> q.name,
   price          |-> q.price,
   change_pct     |-> IF ~IsMarker(q.pct) THEN RoundTo(q.pct, SCALE \div 100) ELSE NULL,
   prev_close     |-> q.prev,
   volume         |-> q.volume,
   market_cap     |-> q.marketCap,
   pe             |-> OrElse(q.forwardPE, q.trailingPE),
   high_52w       |-> q.fiftyTwoWeekHigh,
   low_52w        |-> q.fiftyTwoWeekLow,
   eps            |-> q.epsTrailingTwelveMonths,
   dividend_yield |-> q.dividendYield,
   state          |-> q.state]

\* a top-level operation that only fetches and computes leaves the backtest's
\* variables alone
Returns(value) ==
  /\ opPc' = "done"
  /\ result' = value
  /\ UNCHANGED btVars
  /\ UNCHANGED <<indVars, scanVars, pairVars>>

\* an exception leaves the operation
Raises(exception) ==
  /\ opPc' = "raised"
  /\ result' = exception
  /\ UNCHANGED btVars
  /\ UNCHANGED <<indVars, scanVars, pairVars>>

GetQuote ==
  \E typed \in Tickers :
    LET ticker == toUpperCase(typed) IN
    \E raw \in RawQuotes(ticker) :
      LET q == yahooQuoteBatch(<<ticker>>, raw)[ticker] IN
      /\ opPc = "idle"
      /\ op' = [name |-> "getQuote", ticker |-> typed]
      /\ quote' = q
      /\ UNCHANGED <<resp, headlines>>
      /\ IF NoPrice(q)
         THEN Returns([error |-> <<"No data for", ticker>>])
         ELSE Returns(QuoteResult(ticker, q))

----------------------------------------------------------------------------
(* getTickerNews, analyzeSentiment, getSentiment *)

posWords ==
  <<<<"b", "e", "a", "t">>,
    <<"s", "u", "r", "g", "e">>,
    <<"r", "a", "l", "l", "y">>,
    <<"w", "i", "n">>,
    <<"p", "r", "o", "f", "i", "t">>,
    <<"o", "u", "t", "p", "e", "r", "f", "o", "r", "m">>,
    <<"s", "o", "a", "r", "s">>,
    <<"g", "r", "o", "w", "t", "h">>,
    <<"r", "e", "c", "o", "r", "d">>,
    <<"r", "a", "i", "s", "e">>,
    <<"s", "t", "r", "o", "n", "g">>,
    <<"b", "u", "l", "l">>,
    <<"g", "a", "i", "n">>,
    <<"j", "u", "m", "p">>,
    <<"r", "i", "s", "e">>,
    <<"b", "o", "o", "s", "t">>,
    <<"c", "l", "i", "m", "b">>,
    <<"b", "e", "a", "t", "s">>,
    <<"o", "u", "t", "l", "o", "o", "k">>,
    <<"u", "p", "g", "r", "a", "d", "e">>>>

negWords ==
  <<<<"m", "i", "s", "s">>,
    <<"d", "r", "o", "p">>,
    <<"l", "o", "s", "s">>,
    <<"p", "l", "u", "n", "g", "e">>,
    <<"w", "a", "r", "n">>,
    <<"w", "e", "a", "k">>,
    <<"l", "a", "w", "s", "u", "i", "t">>,
    <<"d", "o", "w", "n">>,
    <<"c", "u", "t">>,
    <<"i", "n", "v", "e", "s", "t", "i", "g", "a", "t", "i", "o", "n">>,
    <<"p", "r", "o", "b", "e">>,
    <<"s", "e", "l", "l">>,
    <<"b", "e", "a", "r">>,
    <<"f", "a", "l", "l", "s">>,
    <<"c", "r", "a", "s", "h">>,
    <<"t", "u", "m", "b", "l", "e">>,
    <<"s", "l", "u", "m", "p">>,
    <<"d", "i", "p">>,
    <<"s", "l", "i", "d", "e">>,
    <<"d", "i", "s", "a", "p", "p", "o", "i", "n", "t">>,
    <<"d", "o", "w", "n", "g", "r", "a", "d", "e">>>>

\* headlines.length >= 10: break
MaxHeadlines == 10

\* headlines.slice(0, 5)
HeadlinesShown == 5

\* [^<]{15,} in the broadest pattern
MinLinkText == 15

Space == " "

\* str.trim(), for spaces
RECURSIVE trim(_)
trim(str) ==
  IF str = <<>> THEN str
  ELSE IF Head(str) = Space THEN trim(Tail(str))
  ELSE IF str[Len(str)] = Space THEN trim(SubSeq(str, 1, Len(str) - 1))
  ELSE str

\* the first MaxHeadlines matches, each trimmed
Collect(matches) ==
  [k \in 1..Min(Len(matches), MaxHeadlines) |-> trim(matches[k])]

\* texts the page holds
BeatsText == <<" ", "S", "t", "o", "c", "k", " ", "B", "e", "a", "t", "s", " ", "e", "s", "t", "i", "m", "a", "t", "e", "s", " ">>

DowngradeText == <<"A", "n", "a", "l", "y", "s", "t", " ", "d", "o", "w", "n", "g", "r", "a", "d", "e">>

RallyText == <<"S", "h", "a", "r", "e", "s", " ", "r", "a", "l", "l", "y">>

WarnText == <<"P", "r", "o", "f", "i", "t", " ", "w", "a", "r", "n", "i", "n", "g">>

QuietText == <<"Q", "u", "i", "e", "t", " ", "d", "a", "y">>

LongText == <<"R", "e", "c", "o", "r", "d", " ", "p", "r", "o", "f", "i", "t", " ", "a", "n", "d", " ", "s", "t", "r", "o", "n", "g", " ", "g", "r", "o", "w", "t", "h">>

HeadlineTexts == {BeatsText, DowngradeText, RallyText, WarnText, QuietText}

\* a page: the link texts each of the three patterns of getTickerNews matches;
\* hasTable tells whether the page has the news table the third pattern needs
Page(links, left, hasTable, table) ==
  [kind |-> "page", links |-> links, left |-> left, hasTable |-> hasTable, table |-> table]

\* what the news site may answer: a failed fetch, a page without headlines,
\* pages with one or two headlines, one with more than the program keeps, and
\* pages only the second or the third pattern matches
RawNews ==
  {[kind |-> "throws"],
   Page(<<>>, <<>>, FALSE, <<>>),
   Page(<<>>, <<>>, TRUE, <<>>),
   Page(<<>>, <<>>, TRUE, <<QuietText>>),
   Page(<<>>, <<>>, TRUE, <<QuietText, LongText>>),
   Page(<<>>, <<WarnText>>, TRUE, <<LongText>>),
   Page([k \in 1..(MaxHeadlines + 1) |-> IF k % 2 = 0 THEN RallyText ELSE WarnText],
        <<>>, FALSE, <<>>)}
    \cup {Page(<<h>>, <<WarnText>>, FALSE, <<>>) : h \in HeadlineTexts}
    \cup {Page(<<h1, h2>>, <<>>, FALSE, <<>>) : h1 \in HeadlineTexts, h2 \in HeadlineTexts}

\* the link texts of at least MinLinkText characters within arr[lo..hi]
RECURSIVE LongLinks(_, _, _)
LongLinks(arr, lo, hi) ==
  IF lo > hi THEN <<>>
  ELSE IF lo = hi THEN (IF Len(arr[lo]) >= MinLinkText THEN <<arr[lo]>> ELSE <<>>)
  ELSE LET mid == (lo + hi) \div 2
       IN LongLinks(arr, lo, mid) \o LongLinks(arr, mid + 1, hi)

\* [] when the fetch throws; else the matches of the first pattern that has any
getTickerNews(raw) ==
  IF raw.kind = "throws" THEN <<>>
  ELSE LET first  == Collect(raw.links)
           second == Collect(raw.left)
           third  == IF raw.hasTable
                     THEN Collect(LongLinks(raw.table, 1, Len(raw.table)))
                     ELSE <<>>
       IN IF Len(first) # 0 THEN first
          ELSE IF Len(second) # 0 THEN second
          ELSE third

\* how many words of the list the headline includes
Hits(hl, words) == Cardinality({k \in 1..Len(words) : includes(hl, words[k])})

\* the score of the headlines lo..hi
RECURSIVE ScoreRange(_, _, _)
ScoreRange(hs, lo, hi) ==
  IF lo > hi THEN 0
  ELSE IF lo = hi
  THEN LET hl == toLowerCase(hs[lo])
       IN Hits(hl, posWords) - Hits(hl, negWords)
  ELSE LET mid == (lo + hi) \div 2
       IN ScoreRange(hs, lo, mid) + ScoreRange(hs, mid + 1, hi)

analyzeSentiment(hs) == ScoreRange(hs, 1, Len(hs))

Mood(score) ==
  IF score > 2 THEN "Very positive"
  ELSE IF score > 0 THEN "Slightly positive"
  ELSE IF score = 0 THEN "Neutral"
  ELSE IF score > 0 - 2 THEN "Slightly negative"
  ELSE "Very negative"

\* !headlines.length
NoHeadlines(hs) == Len(hs) = 0

GetSentiment ==
  \E typed \in Tickers, raw \in RawNews :
    LET hs == getTickerNews(raw) IN
    /\ opPc = "idle"
    /\ op' = [name |-> "getSentiment", ticker |-> typed]
    /\ headlines' = hs
    /\ UNCHANGED <<resp, quote>>
    /\ IF NoHeadlines(hs)
       THEN Returns([ticker |-> typed, headlines |-> <<>>, score |-> 0,
                     mood |-> "No data"])
       ELSE LET score == analyzeSentiment(hs)
            IN Returns([ticker    |-> toUpperCase(typed),
                        headlines |-> SubSeq(hs, 1, Min(Len(hs), HeadlinesShown)),
                        score     |-> score,
                        mood      |-> Mood(score)])

----------------------------------------------------------------------------
(* analyzeStock, getChartData *)

\* if (!rows || rows.length < 50) in analyzeStock
AnalyzeMinBars == 50

\* if (!rows || rows.length < 5) in getChartData
ChartMinBars == 5

\* the default periods of the indicators
SMAFast == 50

SMASlow == 200

ATRPeriod == 14

ADXPeriod == 14

MACDFast == 12

MACDSlow == 26

MACDSignal == 9

BBPeriod == 20

BBStdDev == 2

\* slice(-20) for the volume average and the 20-day high and low
RecentBars == 20

\* arr[k] for a 0-based k: undefined outside the array
At(arr, k) == IF k >= 0 /\ k < Len(arr) THEN arr[k + 1] ELSE EMPTY

\* the pattern detection of analyzeStock, in the order the code pushes; the
\* 20-day low is taken for the 20-day high
PatternsBug(closes, rsiArr, sma50, sma200, macd, bb) ==
  LET len           == Len(closes)
      latestRSI     == LastValid(rsiArr)
      latestMACD    == LastValid(macd.macd)
      latestSignal  == LastValid(macd.signal)
      latestPrice   == At(closes, len - 1)
      latestBBUpper == LastValid(bb.upper)
      latestBBLower == LastValid(bb.lower)
      recent20      == LastK(closes, RecentBars)
      tags ==
        <<[on  |-> JsLt(At(sma50, len - 2), At(sma200, len - 2))
                     /\ JsGt(At(sma50, len - 1), At(sma200, len - 1)),
           tag |-> "Golden Cross"],
          [on  |-> JsGt(At(sma50, len - 2), At(sma200, len - 2))
                     /\ JsLt(At(sma50, len - 1), At(sma200, len - 1)),
           tag |-> "Death Cross"],
          [on  |-> JsGt(latestRSI, Num(70)), tag |-> "RSI Overbought"],
          [on  |-> JsLt(latestRSI, Num(30)), tag |-> "RSI Oversold"],
          [on  |-> JsGe(latestPrice, latestBBUpper), tag |-> "upper Bollinger Band"],
          [on  |-> JsLe(latestPrice, latestBBLower), tag |-> "lower Bollinger Band"],
          [on  |-> JsGt(latestMACD, latestSignal)
                     /\ JsLt(At(macd.macd, len - 2), At(macd.signal, len - 2)),
           tag |-> "MACD bullish crossover"],
          [on  |-> JsLt(latestMACD, latestSignal)
                     /\ JsGt(At(macd.macd, len - 2), At(macd.signal, len - 2)),
           tag |-> "MACD bearish crossover"],
          [on  |-> recent20 # <<>>
                     /\ JsGe(latestPrice, MaxRange(recent20, 1, Len(recent20))),
           tag |-> "20-day High"],
          [on  |-> recent20 # <<>>
                     /\ JsLe(latestPrice, MaxRange(recent20, 1, Len(recent20))),
           tag |-> "20-day Low"]>>
      pushed == SelectSeq(tags, LAMBDA t : t.on)
  IN [k \in 1..Len(pushed) |-> pushed[k].tag]

\* the pattern detection of analyzeStock, in the order the code pushes
Patterns(closes, rsiArr, sma50, sma200, macd, bb) ==
  LET len           == Len(closes)
      latestRSI     == LastValid(rsiArr)
      latestMACD    == LastValid(macd.macd)
      latestSignal  == LastValid(macd.signal)
      latestPrice   == At(closes, len - 1)
      latestBBUpper == LastValid(bb.upper)
      latestBBLower == LastValid(bb.lower)
      recent20      == LastK(closes, RecentBars)
      tags ==
        <<[on  |-> JsLt(At(sma50, len - 2), At(sma200, len - 2))
                     /\ JsGt(At(sma50, len - 1), At(sma200, len - 1)),
           tag |-> "Golden Cross"],
          [on  |-> JsGt(At(sma50, len - 2), At(sma200, len - 2))
                     /\ JsLt(At(sma50, len - 1), At(sma200, len - 1)),
           tag |-> "Death Cross"],
          [on  |-> JsGt(latestRSI, Num(70)), tag |-> "RSI Overbought"],
          [on  |-> JsLt(latestRSI, Num(30)), tag |-> "RSI Oversold"],
          [on  |-> JsGe(latestPrice, latestBBUpper), tag |-> "upper Bollinger Band"],
          [on  |-> JsLe(latestPrice, latestBBLower), tag |-> "lower Bollinger Band"],
          [on  |-> JsGt(latestMACD, latestSignal)
                     /\ JsLt(At(macd.macd, len - 2), At(macd.signal, len - 2)),
           tag |-> "MACD bullish crossover"],
          [on  |-> JsLt(latestMACD, latestSignal)
                     /\ JsGt(At(macd.macd, len - 2), At(macd.signal, len - 2)),
           tag |-> "MACD bearish crossover"],
          [on  |-> recent20 # <<>>
                     /\ JsGe(latestPrice, MaxRange(recent20, 1, Len(recent20))),
           tag |-> "20-day High"],
          [on  |-> recent20 # <<>>
                     /\ JsLe(latestPrice, MinRange(recent20, 1, Len(recent20))),
           tag |-> "20-day Low"]>>
      pushed == SelectSeq(tags, LAMBDA t : t.on)
  IN [k \in 1..Len(pushed) |-> pushed[k].tag]

\* the verdict from the Sharpe ratio and the maximum drawdown
VerdictBug(stats) ==
  IF JsGt(stats.sharpe, (Num(12)) \div 10) \/ JsGt(stats.max_drawdown, 0 - (Num(3)) \div 10)
  THEN "BUY"
  ELSE IF JsLt(stats.sharpe, (Num(3)) \div 10) /\ JsLt(stats.max_drawdown, 0 - (Num(4)) \div 10)
  THEN "SELL"
  ELSE "HOLD"

Verdict(stats) ==
  IF JsGt(stats.sharpe, (Num(12)) \div 10) /\ JsGt(stats.max_drawdown, 0 - (Num(3)) \div 10)
  THEN "BUY"
  ELSE IF JsLt(stats.sharpe, (Num(3)) \div 10) /\ JsLt(stats.max_drawdown, 0 - (Num(4)) \div 10)
  THEN "SELL"
  ELSE "HOLD"

\* volumes[volumes.length - 1] / avgVol of the last 20 bars, 0 without volume
VolRatio(volumes) ==
  LET vol20  == LastK(volumes, RecentBars)
      avgVol == FDiv(SumRange(vol20, 1, Len(vol20)), Num(Len(vol20)))
  IN IF avgVol > 0 THEN FDiv(volumes[Len(volumes)], avgVol) ELSE 0

\* the technicals of the returned object
Technicals(closes, volumes, rsiArr, sma50, sma200, adx, atr, macd, bb) ==
  [rsi         |-> LastValid(rsiArr),
   adx         |-> LastValid(adx),
   atr         |-> LastValid(atr),
   macd        |-> LastValid(macd.macd),
   macd_signal |-> LastValid(macd.signal),
   sma50       |-> At(sma50, Len(closes) - 1),
   sma200      |-> At(sma200, Len(closes) - 1),
   bb_upper    |-> LastValid(bb.upper),
   bb_lower    |-> LastValid(bb.lower),
   vol_ratio   |-> RoundTo(VolRatio(volumes), SCALE \div 100)]

\* the computed fields, from the statistics and the indicator arrays
ComputedFields(rows, closes, volumes, stats, rsiArr, sma50, sma200, adx, atr, macd, bb) ==
  [stats      |-> stats,
   technicals |-> Technicals(closes, volumes, rsiArr, sma50, sma200, adx, atr, macd, bb),
   patterns   |-> Patterns(closes, rsiArr, sma50, sma200, macd, bb),
   verdict    |-> Verdict(stats),
   data       |-> rows]

\* the statistics and indicators analyzeStock computes from the columns
ComputeFrom(chart, closes, highs, lows, volumes) ==
  ComputedFields(chart.rows, closes, volumes,
                 quantStats(chart),
                 calcRSI(closes, RSIPeriod),
                 calcSMA(closes, SMAFast),
                 calcSMA(closes, SMASlow),
                 calcADX(highs, lows, closes, ADXPeriod),
                 calcATR(highs, lows, closes, ATRPeriod),
                 calcMACD(closes, MACDFast, MACDSlow, MACDSignal),
                 calcBollingerBands(closes, BBPeriod, BBStdDev))

\* everything analyzeStock computes once it has enough rows
Compute(chart) ==
  ComputeFrom(chart,
              Column(chart.rows, "close"), Column(chart.rows, "high"),
              Column(chart.rows, "low"), Column(chart.rows, "volume"))

\* what analyzeStock returns once it has enough rows
Analysis(ticker, c) ==
  [ticker     |-> ticker,
   stats      |-> c.stats,
   technicals |-> c.technicals,
   patterns   |-> c.patterns,
   verdict    |-> c.verdict,
   data       |-> c.data]

\* the series the analysis is run on
AnalyzeShapes == Shapes(Enough(AnalyzeMinBars), {15}, {8})

\* analyzeStock on a fetched chart; c is what it computes when it gets that far
AnalyzeFetched(chart, c) ==
  \E typed \in Tickers :
    LET ticker == toUpperCase(typed)
    IN /\ opPc = "idle"
       /\ op' = [name |-> "analyzeStock", ticker |-> typed]
       /\ resp' = chart
       /\ UNCHANGED <<quote, headlines>>
       /\ IF TooFewBars(chart, AnalyzeMinBars)
          THEN Returns([error |-> <<"Not enough data for", ticker>>])
          ELSE IF chart.isNull
          THEN Raises(TypeError)
          ELSE Returns(Analysis(ticker, c))

AnalyzeChart(chart) == AnalyzeFetched(chart, Compute(chart))

\* series whose daily return is the same at every bar: closes that do not move,
\* and closes of the same size and alternating sign, ending where they started
LevelCharts ==
  {Data(LevelBars(AnalyzeMinBars, FALSE)), Data(LevelBars(AnalyzeMinBars + 1, TRUE))}

\* series of one bar more than the slow average needs, on which the fast
\* average crosses the slow one at the last bar: a long fall and a steep rise,
\* and a long rise and a steep fall
CrossShapes ==
  {[n |-> SMASlow + 1, l1 |-> 15, l2 |-> 8, l3 |-> 128,
    d1 |-> 3 * Unit, d2 |-> Unit, d3 |-> 0 - Unit, d4 |-> 3 * Unit],
   [n |-> SMASlow + 1, l1 |-> 15, l2 |-> 8, l3 |-> 127,
    d1 |-> 0 - Unit, d2 |-> Unit, d3 |-> Unit, d4 |-> 0 - 3 * Unit]}

CrossCharts == {Data(BarsOf(sh)) : sh \in CrossShapes}

AnalyzeStock ==
  \E raw \in RawCharts(AnalyzeMinBars, AnalyzeShapes) \cup LevelCharts \cup CrossCharts :
    AnalyzeChart(yahooChart(raw))

\* r.date.toISOString()
toISOString(date) == <<"ISO", date>>

\* what getChartData returns once it has enough rows
ChartData(ticker, range, chart) ==
  LET rows   == chart.rows
      closes == Column(rows, "close")
  IN [ticker |-> ticker,
      range  |-> range,
      dates  |-> [k \in 1..Len(rows) |-> toISOString(rows[k].date)],
      open   |-> Column(rows, "open"),
      high   |-> Column(rows, "high"),
      low    |-> Column(rows, "low"),
      close  |-> closes,
      volume |-> Column(rows, "volume"),
      sma50  |-> calcSMA(closes, SMAFast),
      sma200 |-> calcSMA(closes, SMASlow),
      rsi    |-> calcRSI(closes, RSIPeriod),
      bb     |-> calcBollingerBands(closes, BBPeriod, BBStdDev),
      macd   |-> calcMACD(closes, MACDFast, MACDSlow, MACDSignal)]

\* the series the chart data are built from
ChartShapes == Shapes(Enough(ChartMinBars), {15}, {8})

\* the chart ranges a caller may ask for
Ranges == {"6mo", "1y"}

GetChartData ==
  \E typed \in Tickers, range \in Ranges, raw \in RawCharts(ChartMinBars, ChartShapes) :
    LET ticker == toUpperCase(typed)
        chart  == yahooChart(raw)
    IN /\ opPc = "idle"
       /\ op' = [name |-> "getChartData", ticker |-> typed, range |-> range]
       /\ resp' = chart
       /\ UNCHANGED <<quote, headlines>>
       /\ IF TooFewBars(chart, ChartMinBars)
          THEN Returns([error |-> <<"No chart data for", ticker>>])
          ELSE IF chart.isNull
          THEN Raises(TypeError)
          ELSE Returns(ChartData(ticker, range, chart))

----------------------------------------------------------------------------
(* Specification of the top-level operations *)

Init == IndIdle /\ OpIdle /\ ScanIdle /\ PairIdle

Next ==
  \/ GetQuote
  \/ GetSentiment
  \/ AnalyzeStock
  \/ GetChartData
  \/ BacktestStart
  \/ BacktestBar
  \/ BacktestFinish

Spec == Init /\ [][Next]_vars

----------------------------------------------------------------------------
(* Watchlist scans: momentumScan, findMoonshots, generateIdeas *)

WATCHLIST ==
  <<
    "AAPL", "MSFT", "NVDA", "GOOGL", "AMZN", "META", "TSLA", "AVGO", "AMD", "INTC",
    "PLTR", "RKLB", "HIMS", "SOFI", "HOOD", "COIN", "MSTR", "APP", "SMCI", "CRWD",
    "CRM", "ORCL", "NFLX", "DIS", "PYPL", "SQ", "UBER", "SHOP", "SNOW", "NET",
    "DDOG", "MDB", "OKLO", "CELH", "OSCR", "NBIS", "RBRK", "ABCL", "OXY", "ASTS",
    "JPM", "GS", "BAC", "V", "MA", "BRK.B", "WMT", "COST", "HD", "NKE",
    "XOM", "CVX", "GLD", "SLV", "SCHD", "SPY", "QQQ", "TEM", "BIIB"
  >>

\* the scans are run on the first WatchLen symbols of WATCHLIST
WatchLen == 3

Watched == SubSeq(WATCHLIST, 1, WatchLen)

\* the n of momentumScan, the limit of findMoonshots, the perBucket of generateIdeas
Limits == {2, 10}

\* if (!rows || rows.length < 60) in momentumScan and generateIdeas
MomentumMinBars == 60

\* if (!rows || rows.length < 10) in findMoonshots
MoonshotMinBars == 10

\* if (price < 5), price >= 5
MinPrice == Num(5)

\* the same payload with the volume of the last bar multiplied
WithSurge(bars, factor) ==
  [j \in 1..Len(bars) |->
     IF j = Len(bars) THEN [bars[j] EXCEPT !.volume = bars[j].volume * factor]
     ELSE bars[j]]

\* series of n bars that go up all the way, or down all the way
Rising(n) ==
  [n |-> n, l1 |-> 15, l2 |-> 8, l3 |-> 8,
   d1 |-> Unit, d2 |-> 3 * Unit, d3 |-> Unit, d4 |-> 3 * Unit]

Falling(n) ==
  [n |-> n, l1 |-> 15, l2 |-> 8, l3 |-> 8,
   d1 |-> 0 - Unit, d2 |-> 0 - Unit, d3 |-> 0 - Unit, d4 |-> 0 - Unit]

Bars(sh, surge) == [kind |-> "bars", sh |-> sh, surge |-> surge]

\* what the chart endpoint answers for one symbol to a loop that needs `least`
\* bars: a failed fetch, least - 1 bars, `least` rising bars, `least` falling bars
FewChartReplies(least) ==
  {[kind |-> "throws"], Bars(Rising(least), 1), Bars(Falling(least), 1)}
    \cup {Bars(sh, 1) : sh \in ShortShapes({least - 1})}

\* the same, and a payload without a result and a surge of the last volume
ChartReplies(least) ==
  FewChartReplies(least) \cup {[kind |-> "noResult"], Bars(Rising(least), 3)}

\* the same payload with a close of 0 at the bar `back` bars before the last
WithZeroClose(bars, back) ==
  [j \in 1..Len(bars) |->
     IF j = Len(bars) - back THEN [bars[j] EXCEPT !.close = 0] ELSE bars[j]]

ZeroBase(sh, back) == [kind |-> "zeroBase", sh |-> sh, back |-> back]

\* how far before the last bar, and how far above the last close, a peak lies
PeakBack == 10

PeakRise == Num(3)

\* the same payload with a one-bar peak above the last close
WithPeak(bars) ==
  [j \in 1..Len(bars) |->
     IF j = Len(bars) - PeakBack
     THEN [bars[j] EXCEPT !.close = bars[Len(bars)].close + PeakRise,
                          !.high = bars[Len(bars)].close + PeakRise + Unit]
     ELSE bars[j]]

Peaked(sh, surge) == [kind |-> "peaked", sh |-> sh, surge |-> surge]

\* the same payload with the closes and volumes of its last two bars replaced
WithTail(bars, t) ==
  [j \in 1..Len(bars) |->
     IF j = Len(bars)
     THEN [bars[j] EXCEPT !.close = t.price, !.volume = t.vol]
     ELSE IF j = Len(bars) - 1
     THEN [bars[j] EXCEPT !.close = t.prevPrice, !.volume = t.prevVol]
     ELSE bars[j]]

LastTwo(sh, prevPrice, price, prevVol, vol) ==
  [kind |-> "tail", sh |-> sh,
   t |-> [prevPrice |-> prevPrice, price |-> price, prevVol |-> prevVol, vol |-> vol]]

Cents(c) == (c * SCALE) \div 100

\* last two bars on and next to the thresholds of findMoonshots: a move of 4%
\* up and down, and of more; twice the prior volume, and a little less; a prior
\* volume of 0; a close off the 10-day high; a close below $5; a prior close of 0
EdgeTails ==
  {LastTwo(Rising(MoonshotMinBars), Cents(500), Cents(520), Num(1), Num(2)),
   LastTwo(Rising(MoonshotMinBars), Cents(500), Cents(525), Num(1), Num(2)),
   LastTwo(Rising(MoonshotMinBars), Cents(550), Cents(528), Num(1), Num(2)),
   LastTwo(Rising(MoonshotMinBars), Cents(550), Cents(525), Num(1), Num(2)),
   LastTwo(Rising(MoonshotMinBars), Cents(530), Cents(535), Num(1), Num(2) - 1),
   LastTwo(Rising(MoonshotMinBars), Cents(530), Cents(535), Num(1), Num(2) + Cents(1)),
   LastTwo(Rising(MoonshotMinBars), Cents(530), Cents(535), 0, Num(2)),
   LastTwo(Rising(MoonshotMinBars), Cents(530), Cents(535), 0, 0),
   LastTwo(Rising(MoonshotMinBars), Cents(505), Cents(505), Num(1), Num(2)),
   LastTwo(Falling(MoonshotMinBars), Cents(495), Cents(495), Num(1), Num(2)),
   LastTwo(Rising(MoonshotMinBars), 0, Cents(535), Num(1), Num(2))}

\* volume ratios that differ and are reported alike, and a larger one
NearTails ==
  {LastTwo(Rising(MoonshotMinBars), Cents(530), Cents(535), Num(1), Num(2) + Cents(4)),
   LastTwo(Rising(MoonshotMinBars), Cents(530), Cents(535), Num(1), Num(3))}

\* what the chart endpoint answers to findMoonshots for the k-th symbol
MoonshotReplies(k) ==
  ChartReplies(MoonshotMinBars)
    \cup (IF k = 1 THEN EdgeTails ELSE IF k = 2 THEN NearTails ELSE {})

RawOf(reply) ==
  IF reply.kind = "bars" THEN Data(WithSurge(BarsOf(reply.sh), reply.surge))
  ELSE IF reply.kind = "tail" THEN Data(WithTail(BarsOf(reply.sh), reply.t))
  ELSE IF reply.kind = "peaked"
  THEN Data(WithSurge(WithPeak(BarsOf(reply.sh)), reply.surge))
  ELSE IF reply.kind = "zeroBase" THEN Data(WithZeroClose(BarsOf(reply.sh), reply.back))
  ELSE [kind |-> reply.kind]

\* yahooChart(sym, range, '1d') when the endpoint gives this reply
ChartOf(reply) == yahooChart(RawOf(reply))

\* what one pass of a per-symbol loop body comes to
Continue == [kind |-> "continue"]

Throw == [kind |-> "throw"]

Push(entry) == [kind |-> "push", entry |-> entry]

\* try { ... } catch { continue; }
TryCatchBug(outcome) == outcome

TryCatch(outcome) == IF outcome.kind = "throw" THEN Continue ELSE outcome

\* entry e put into the sorted array arr, after the entries that do not come
\* after it: the sort is stable, and a comparator that returns NaN counts as
\* one that returns 0
RECURSIVE Insert(_, _, _)
Insert(arr, e, key) ==
  IF arr = <<>> THEN <<e>>
  ELSE IF e[key] # NaN /\ arr[Len(arr)][key] # NaN /\ e[key] > arr[Len(arr)][key]
  THEN Append(Insert(SubSeq(arr, 1, Len(arr) - 1), e, key), arr[Len(arr)])
  ELSE Append(arr, e)

\* arr.sort((a, b) => b[key] - a[key])
SortDescBug(arr, key) == arr

RECURSIVE SortDesc(_, _)
SortDesc(arr, key) ==
  IF arr = <<>> THEN <<>>
  ELSE Insert(SortDesc(SubSeq(arr, 1, Len(arr) - 1), key), arr[Len(arr)], key)

\* arr.slice(0, n)
FirstK(arr, n) == SubSeq(arr, 1, Min(n, Len(arr)))

\* quotes[sym]?.name || sym
NameOf(qs, sym) == OrElse(qs[sym].name, sym)

\* the lookbacks of the trailing returns, in bars
Lookback1m == 21

Lookback3m == 63

Lookback6m == 126

Lookback12m == 252

\* the weights of the trailing returns: 0.1, 0.2, 0.3, 0.4
Weight1m == SCALE \div 10

Weight3m == (2 * SCALE) \div 10

Weight6m == (3 * SCALE) \div 10

Weight12m == (4 * SCALE) \div 10

\* const ret = (days) => ...: null when the series is not longer than `days`
\* bars or the old close is not positive
TrailingReturn(closes, price, days) ==
  IF Len(closes) <= days THEN NULL
  ELSE IF closes[Len(closes) - days] > 0
  THEN FDiv(price, closes[Len(closes) - days]) - ONE
  ELSE NULL

\* parts and weights, in the order the code pushes them
WeightedPartsBug(r1m, r3m, r6m, r12m) ==
  <<[v |-> ToNumber(r12m), w |-> Weight12m], [v |-> ToNumber(r6m), w |-> Weight6m],
    [v |-> ToNumber(r3m), w |-> Weight3m], [v |-> ToNumber(r1m), w |-> Weight1m]>>

WeightedParts(r1m, r3m, r6m, r12m) ==
  SelectSeq(<<[v |-> r12m, w |-> Weight12m], [v |-> r6m, w |-> Weight6m],
              [v |-> r3m, w |-> Weight3m], [v |-> r1m, w |-> Weight1m]>>,
            LAMBDA part : ~IsMarker(part.v))

\* parts.reduce((sum, v, i) => sum + v * weights[i], 0) / totalW
Composite(parts) ==
  FDiv(SumRange([j \in 1..Len(parts) |-> FMul(parts[j].v, parts[j].w)], 1, Len(parts)),
       SumRange([j \in 1..Len(parts) |-> parts[j].w], 1, Len(parts)))

\* the z-score of the last volume among the last 20, from their mean and deviation
VolZFrom(volumes, volMean, volStd) ==
  IF volStd > 0 THEN FDiv(volumes[Len(volumes)] - volMean, volStd) ELSE 0

VolStd(vol20, volMean) ==
  FSqrt(FDiv(SumSq(vol20, volMean, 1, Len(vol20)), Num(Len(vol20))))

VolMean(vol20) == FDiv(SumRange(vol20, 1, Len(vol20)), Num(Len(vol20)))

VolZ(volumes) ==
  VolZFrom(volumes, VolMean(LastK(volumes, RecentBars)),
           VolStd(LastK(volumes, RecentBars), VolMean(LastK(volumes, RecentBars))))

\* price / Math.max(...closes.slice(-252)), 0 without a positive high
Prox52w(closes, price, high52w) == IF high52w > 0 THEN FDiv(price, high52w) ELSE 0

\* volume boost, nearness to the 52-week high, trend strength, extreme RSI
VolumeBoostBug(volZ) == 0 - FMul(Max(0, Min(Num(3), volZ)), (15 * SCALE) \div 100)

VolumeBoost(volZ) == FMul(Max(0, Min(Num(3), volZ)), (15 * SCALE) \div 100)

NearHigh(prox52w) == FMul(prox52w - (95 * SCALE) \div 100, Num(2))

TrendBonus(latestADX) == IF latestADX >= Num(20) THEN (5 * SCALE) \div 100 ELSE 0

ExtremePenalty(latestRSI) ==
  IF latestRSI > Num(80) \/ latestRSI < Num(20) THEN (5 * SCALE) \div 100 ELSE 0

\* the entry momentumScan pushes, or nothing without any trailing return
MomentumEntry(sym, qs, price, r1m, r3m, r6m, r12m, volZ, latestRSI, latestADX, prox52w) ==
  IF WeightedParts(r1m, r3m, r6m, r12m) = <<>> THEN Continue
  ELSE Push([ticker   |-> sym,
             price    |-> price,
             score    |-> Composite(WeightedParts(r1m, r3m, r6m, r12m))
                            + VolumeBoost(volZ) + NearHigh(prox52w)
                            + TrendBonus(latestADX) - ExtremePenalty(latestRSI),
             r1m      |-> r1m,
             r3m      |-> r3m,
             r6m      |-> r6m,
             r12m     |-> r12m,
             rsi      |-> latestRSI,
             adx      |-> latestADX,
             vol_z    |-> RoundTo(volZ, SCALE \div 10),
             prox_52w |-> RoundTo(FMul(prox52w, Num(100)), SCALE \div 10),
             name     |-> NameOf(qs, sym)])

\* the loop body of momentumScan from the price filter on
MomentumPriced(sym, qs, closes, highs, lows, volumes, price) ==
  IF price < MinPrice THEN Continue
  ELSE MomentumEntry(sym, qs, price,
                     TrailingReturn(closes, price, Lookback1m),
                     TrailingReturn(closes, price, Lookback3m),
                     TrailingReturn(closes, price, Lookback6m),
                     TrailingReturn(closes, price, Lookback12m),
                     VolZ(volumes),
                     OrElse(LastValid(calcRSI(closes, RSIPeriod)), Num(50)),
                     OrElse(LastValid(calcADX(highs, lows, closes, ADXPeriod)), 0),
                     Prox52w(closes, price,
                             MaxRange(LastK(closes, Lookback12m), 1,
                                      Len(LastK(closes, Lookback12m)))))

MomentumRows(sym, qs, closes, highs, lows, volumes) ==
  MomentumPriced(sym, qs, closes, highs, lows, volumes, closes[Len(closes)])

\* the loop body of momentumScan for one symbol, given what yahooChart returned
MomentumBody(sym, qs, chart) ==
  IF TooFewBars(chart, MomentumMinBars) THEN Continue
  ELSE IF chart.isNull THEN Throw
  ELSE MomentumRows(sym, qs, Column(chart.rows, "close"), Column(chart.rows, "high"),
                    Column(chart.rows, "low"), Column(chart.rows, "volume"))

\* one share, for volumes counted in millions of shares: below the resolution of
\* the numbers, and taken as the smallest positive number
OneShare == 1

\* the filter thresholds of findMoonshots: 4 (percent), 2.0, 0.95
MaxMovePct == Num(4)

MinVolRatio == Num(2)

BreakoutShare == (95 * SCALE) \div 100

\* closes.slice(-10)
BreakoutBars == 10

\* the same with the move compared as it is, not in absolute value
MoonshotEntryBug(sym, qs, price, pct, volRatio, high10d) ==
  IF /\ price >= MinPrice
     /\ pct <= MaxMovePct
     /\ volRatio >= MinVolRatio
     /\ price >= FMul(BreakoutShare, high10d)
  THEN Push([ticker    |-> sym,
             name      |-> NameOf(qs, sym),
             price     |-> price,
             pct       |-> RoundTo(pct, SCALE \div 100),
             vol_ratio |-> RoundTo(volRatio, SCALE \div 10)])
  ELSE Continue

\* the entry findMoonshots pushes when the four filters pass
MoonshotEntry(sym, qs, price, pct, volRatio, high10d) ==
  IF /\ price >= MinPrice
     /\ Abs(pct) <= MaxMovePct
     /\ volRatio >= MinVolRatio
     /\ price >= FMul(BreakoutShare, high10d)
  THEN Push([ticker    |-> sym,
             name      |-> NameOf(qs, sym),
             price     |-> price,
             pct       |-> RoundTo(pct, SCALE \div 100),
             vol_ratio |-> RoundTo(volRatio, SCALE \div 10)])
  ELSE Continue

MoonshotRows(sym, qs, closes, volumes, price, prevPrice) ==
  MoonshotEntry(sym, qs, price,
                JsMul(JsDiv(price - prevPrice, prevPrice), Num(100)),
                FDiv(volumes[Len(volumes)], OrElse(volumes[Len(volumes) - 1], OneShare)),
                MaxRange(LastK(closes, BreakoutBars), 1,
                         Len(LastK(closes, BreakoutBars))))

\* the loop body of findMoonshots for one symbol, given what yahooChart returned
MoonshotBody(sym, qs, chart) ==
  IF TooFewBars(chart, MoonshotMinBars) THEN Continue
  ELSE IF chart.isNull THEN Throw
  ELSE MoonshotRows(sym, qs, Column(chart.rows, "close"), Column(chart.rows, "volume"),
                    chart.rows[Len(chart.rows)].close,
                    chart.rows[Len(chart.rows) - 1].close)

\* the value bucket's bounds on P/E and market cap (in billions): 3, 60, 1e9
ValueMinPE == Num(3)

ValueMaxPE == Num(60)

ValueMinCap == Num(1)

\* !v
Falsy(v) == IsMarker(v) \/ v = 0

\* nearLow < 0.2 ? 0.3 : nearLow < 0.4 ? 0.15 : 0
Discount(nearLow) ==
  IF nearLow < (2 * SCALE) \div 10 THEN (3 * SCALE) \div 10
  ELSE IF nearLow < (4 * SCALE) \div 10 THEN (15 * SCALE) \div 100
  ELSE 0

\* low52 > 0 ? (q.price / low52 - 1) : 0
NearLow(price, low52) == IF low52 > 0 THEN FDiv(price, low52) - ONE ELSE 0

\* the text of the reason, as its parts
Reason(pe, nearLow, dividendYield) ==
  <<"PE", RoundTo(pe, SCALE \div 10)>>
    \o (IF nearLow < (15 * SCALE) \div 100 THEN <<"near 52w low">> ELSE <<>>)
    \o (IF ~Falsy(dividendYield) /\ dividendYield > (2 * SCALE) \div 100
        THEN <<"yield", RoundTo(FMul(dividendYield, Num(100)), SCALE \div 10)>>
        ELSE <<>>)

ValueEntry(sym, q, pe, nearLow) ==
  Push([ticker |-> sym,
        name   |-> OrElse(q.name, sym),
        score  |-> FMul(FDiv(ONE, pe), Num(100)) + Discount(nearLow),
        pe     |-> RoundTo(pe, SCALE \div 10),
        price  |-> q.price,
        reason |-> Reason(pe, nearLow, q.dividendYield)])

ValueScreen(sym, q, pe, mc) ==
  IF Falsy(pe) \/ pe <= 0 \/ pe < ValueMinPE \/ pe > ValueMaxPE THEN Continue
  ELSE IF Falsy(mc) \/ mc < ValueMinCap THEN Continue
  ELSE ValueEntry(sym, q, pe, NearLow(q.price, OrElse(q.fiftyTwoWeekLow, 0)))

\* the body of the value loop of generateIdeas for one symbol
ValueBody(sym, q) ==
  IF Falsy(q.price) THEN Continue
  ELSE ValueScreen(sym, q, OrElse(q.forwardPE, q.trailingPE), q.marketCap)

\* the array after the loop body has run on it for one symbol
Pushed(arr, outcome) ==
  IF outcome.kind = "push" THEN Append(arr, outcome.entry) ELSE arr

\* valResults after the loop over the first k symbols
RECURSIVE ValueResults(_, _)
ValueResults(qs, k) ==
  IF k = 0 THEN <<>>
  ELSE Pushed(ValueResults(qs, k - 1), ValueBody(WATCHLIST[k], qs[WATCHLIST[k]]))

\* if (adv20 < 2_000_000), volumes counted in millions of shares
MinADV == Num(2)

\* the entry the momentum loop of generateIdeas pushes
IdeasMomentumEntry(sym, qs, price, adv20, r1m, r3m, r6m, r12m, latestRSI) ==
  IF IsMarker(r1m) /\ IsMarker(r3m) THEN Continue
  ELSE IF WeightedParts(r1m, r3m, r6m, r12m) = <<>> THEN Continue
  ELSE Push([ticker |-> sym,
             name   |-> NameOf(qs, sym),
             score  |-> Composite(WeightedParts(r1m, r3m, r6m, r12m))
                          - (IF latestRSI > Num(80) THEN (5 * SCALE) \div 100 ELSE 0),
             r1m    |-> r1m,
             r3m    |-> r3m,
             r6m    |-> r6m,
             rsi    |-> latestRSI,
             price  |-> price,
             adv20  |-> RoundTo(adv20, OneShare)])

IdeasMomentumPriced(sym, qs, closes, price, adv20) ==
  IF price < MinPrice THEN Continue
  ELSE IF adv20 < MinADV THEN Continue
  ELSE IdeasMomentumEntry(sym, qs, price, adv20,
                          TrailingReturn(closes, price, Lookback1m),
                          TrailingReturn(closes, price, Lookback3m),
                          TrailingReturn(closes, price, Lookback6m),
                          TrailingReturn(closes, price, Lookback12m),
                          OrElse(LastValid(calcRSI(closes, RSIPeriod)), Num(50)))

\* the body of the momentum loop of generateIdeas, given what yahooChart returned
IdeasMomentumBody(sym, qs, chart) ==
  IF TooFewBars(chart, MomentumMinBars) THEN Continue
  ELSE IF chart.isNull THEN Throw
  ELSE IdeasMomentumPriced(sym, qs, Column(chart.rows, "close"),
                           chart.rows[Len(chart.rows)].close,
                           VolMean(LastK(Column(chart.rows, "volume"), RecentBars)))

\* a figure of the fundamentals payload: absent, a plain number, or an object
\* that may have a raw and a rawValue
Absent == [form |-> "absent"]

Plain(v) == [form |-> "plain", v |-> v]

Figure(raw, rawValue) == [form |-> "object", raw |-> raw, rawValue |-> rawValue]

\* const raw = (obj) => obj?.raw ?? obj?.rawValue ?? obj ?? null
RawValue(obj) ==
  IF obj.form = "absent" THEN NULL
  ELSE IF obj.form = "plain" THEN obj.v
  ELSE Coalesce(obj.raw, Coalesce(obj.rawValue, OBJECT))

\* the modules of a payload; a missing module is {}
NoModule ==
  [revenueGrowth |-> Absent, grossMargins |-> Absent, returnOnEquity |-> Absent,
   debtToEquity |-> Absent, payoutRatio |-> Absent, dividendYield |-> Absent,
   marketCap |-> Absent, forwardPE |-> Absent, trailingPE |-> Absent,
   shortName |-> Absent]

\* percentages of the payloads
Pct(n) == (n * SCALE) \div 100

FinancialData(rg, gm, roe, dte) ==
  [NoModule EXCEPT !.revenueGrowth = Figure(Pct(rg), EMPTY),
                   !.grossMargins = Figure(Pct(gm), EMPTY),
                   !.returnOnEquity = Figure(EMPTY, Pct(roe)),
                   !.debtToEquity = dte]

SummaryDetail(dy, payout, mc) ==
  [NoModule EXCEPT !.dividendYield = Figure(Pct(dy), EMPTY),
                   !.payoutRatio = Plain(Pct(payout)),
                   !.marketCap = mc,
                   !.trailingPE = Figure(Num(20), EMPTY)]

Payload(fd, sd) == [kind |-> "data", ks |-> NoModule, fd |-> fd, sd |-> sd]

\* a grower that pays little; a grower that pays and whose debt-to-equity
\* figure is {}
Grower ==
  Payload(FinancialData(20, 50, 20, Figure(ONE, EMPTY)), SummaryDetail(1, 20, Figure(Num(40), EMPTY)))

NoDebtFigure ==
  Payload(FinancialData(20, 50, 20, Figure(EMPTY, EMPTY)), SummaryDetail(5, 30, Figure(Num(40), EMPTY)))

\* what the fundamentals endpoint answers for one symbol
FundamentalsReplies ==
  {[kind |-> "throws"], Grower, NoDebtFigure}

Tenth(n) == (n * SCALE) \div 10

\* a payload with the given growth, margin and return (percent), debt-to-equity
\* and market cap (in billions)
QualityCase(rg, gm, roe, dte, mc) ==
  Payload(FinancialData(rg, gm, roe, dte), SummaryDetail(1, 20, mc))

\* a grower whose revenue-growth figure is {}
NoGrowthFigure ==
  Payload([FinancialData(20, 50, 20, Figure(ONE, EMPTY)) EXCEPT !.revenueGrowth = Figure(EMPTY, EMPTY)],
          SummaryDetail(1, 20, Figure(Num(40), EMPTY)))

\* figures on and next to the thresholds of the quality screen; a payload
\* without a market cap; a figure that is {}
EdgeGrowers ==
  {QualityCase(15, 40, 15, Figure(Num(2), EMPTY), Figure(Num(500), EMPTY)),
   QualityCase(20, 50, 20, Figure(Tenth(15), EMPTY), Figure(Tenth(5), EMPTY)),
   QualityCase(14, 50, 20, Figure(ONE, EMPTY), Figure(Num(40), EMPTY)),
   QualityCase(20, 39, 20, Figure(ONE, EMPTY), Figure(Num(40), EMPTY)),
   QualityCase(20, 50, 14, Figure(ONE, EMPTY), Figure(Num(40), EMPTY)),
   QualityCase(20, 50, 20, Figure(Num(2) + 1, EMPTY), Figure(Num(40), EMPTY)),
   QualityCase(20, 50, 20, Figure(ONE, EMPTY), Figure(Num(500) + 1, EMPTY)),
   QualityCase(20, 50, 20, Figure(ONE, EMPTY), Absent),
   NoGrowthFigure}

\* a grower with a debt-to-equity of 1.8, and one below the least market cap
DebtGrowers ==
  {QualityCase(20, 50, 20, Figure(Tenth(18), EMPTY), Figure(Num(40), EMPTY)),
   QualityCase(20, 50, 20, Figure(ONE, EMPTY), Figure(Tenth(5) - 1, EMPTY))}

\* what the fundamentals endpoint answers to the quality loop for the k-th symbol
QualityReplies(k) ==
  FundamentalsReplies
    \cup (IF k = 1 THEN EdgeGrowers ELSE IF k = 2 THEN DebtGrowers ELSE {})

NullInfo == [isNull |-> TRUE]

\* null when the fetch throws, else the figures of the three modules
yahooFundamentals(raw) ==
  IF raw.kind = "throws" THEN NullInfo
  ELSE LET ks == IF raw.kind = "data" THEN raw.ks ELSE NoModule
           fd == IF raw.kind = "data" THEN raw.fd ELSE NoModule
           sd == IF raw.kind = "data" THEN raw.sd ELSE NoModule
       IN [isNull         |-> FALSE,
           revenueGrowth  |-> RawValue(fd.revenueGrowth),
           grossMargins   |-> RawValue(fd.grossMargins),
           returnOnEquity |-> RawValue(fd.returnOnEquity),
           debtToEquity   |-> RawValue(fd.debtToEquity),
           payoutRatio    |-> RawValue(sd.payoutRatio),
           dividendYield  |-> RawValue(sd.dividendYield),
           marketCap      |-> RawValue(sd.marketCap),
           forwardPE      |-> OrElse(RawValue(sd.forwardPE), RawValue(ks.forwardPE)),
           trailingPE     |-> RawValue(sd.trailingPE),
           shortName      |-> RawValue(sd.shortName)]

\* the quality screen: 0.15, 0.40, 0.15, 2.0, and market caps (in billions)
\* of 5e8 and 5e11
MinRevenueGrowth == Pct(15)

MinGrossMargin == Pct(40)

MinROE == Pct(15)

MaxDebtToEquity == Num(2)

QualityMinCap == SCALE \div 2

QualityMaxCap == Num(500)

\* the same without the penalty
DebtPenaltyBug(dte) == 0

\* dte > 1.5 ? 0.05 : 0
DebtPenalty(dte) == IF JsGt(dte, (15 * SCALE) \div 10) THEN Pct(5) ELSE 0

\* v * c, where v is a number or {}
Times(v, c) == IF v = OBJECT THEN NaN ELSE FMul(v, c)

\* +x.toFixed(digits), where x is a number or NaN
Fixed(x, unit) == IF x = NaN THEN NaN ELSE RoundTo(x, unit)

\* the object literal of the quality loop; dte.toFixed throws unless dte is a number
QualityEntry(sym, qs, rg, gm, roe, dte) ==
  IF dte = OBJECT THEN Throw
  ELSE Push([ticker |-> sym,
             name   |-> NameOf(qs, sym),
             score  |-> JsSub(JsAdd(JsAdd(Times(rg, Pct(50)), Times(gm, Pct(30))),
                                    Times(roe, Pct(20))),
                              DebtPenalty(dte)),
             rg     |-> Fixed(Times(rg, Num(100)), SCALE \div 10),
             gm     |-> Fixed(Times(gm, Num(100)), SCALE \div 10),
             roe    |-> Fixed(Times(roe, Num(100)), SCALE \div 10),
             dte    |-> RoundTo(dte, SCALE \div 100),
             price  |-> OrElse(qs[sym].price, 0)])

QualityScreen(sym, qs, rg, gm, roe, dte, mc) ==
  IF \/ JsLt(rg, MinRevenueGrowth)
     \/ JsLt(gm, MinGrossMargin)
     \/ JsLt(roe, MinROE)
     \/ JsGt(dte, MaxDebtToEquity)
  THEN Continue
  ELSE IF JsLt(mc, QualityMinCap) \/ JsGt(mc, QualityMaxCap) THEN Continue
  ELSE QualityEntry(sym, qs, rg, gm, roe, dte)

\* the body of the quality loop of generateIdeas, given what yahooFundamentals
\* returned
QualityBody(sym, qs, info) ==
  IF info.isNull THEN Continue
  ELSE QualityScreen(sym, qs,
                     OrElse(info.revenueGrowth, 0), OrElse(info.grossMargins, 0),
                     OrElse(info.returnOnEquity, 0), OrElse(info.debtToEquity, 0),
                     OrElse(info.marketCap, OrElse(qs[sym].marketCap, 0)))

\* the income screen: 0.03 and 0.8
MinYield == Pct(3)

MaxPayout == Pct(80)

IncomeScreen(sym, qs, dy, payout) ==
  IF JsLt(dy, MinYield) THEN Continue
  ELSE IF JsLe(payout, 0) \/ JsGt(payout, MaxPayout) THEN Continue
  ELSE Push([ticker |-> sym,
             name   |-> NameOf(qs, sym),
             score  |-> FMul(dy, Pct(70)) + FMul(Pct(80) - payout, Pct(30)),
             dy     |-> RoundTo(FMul(dy, Num(100)), SCALE \div 100),
             payout |-> RoundTo(FMul(payout, Num(100)), SCALE \div 10),
             price  |-> OrElse(qs[sym].price, 0)])

\* the body of the income loop of generateIdeas, given what yahooFundamentals
\* returned
IncomeBody(sym, qs, info) ==
  IF info.isNull THEN Continue
  ELSE IncomeScreen(sym, qs, OrElse(info.dividendYield, 0), OrElse(info.payoutRatio, 0))

\* the item of the quote payload for the k-th symbol, by its place
WatchItem(k, shift) ==
  QuoteItem(WATCHLIST[k],
            IF (k + shift) % 3 = 0 THEN NULL ELSE Num(10) + Unit,
            12345,
            IF (k + shift) % 3 = 1 THEN Num(15) ELSE EMPTY,
            Num(20),
            IF (k + shift) % 2 = 1 THEN 1 ELSE EMPTY)

\* what the quote endpoint answers when asked about the watched symbols: a
\* failed fetch, or an item for each
RawWatchQuotes ==
  {[kind |-> "throws"]}
    \cup {[kind |-> "data", items |-> [k \in 1..WatchLen |-> WatchItem(k, shift)]] :
            shift \in {0}}

\* the loops of generateIdeas that fetch, in their order, and what follows the last
NextBucket(b) ==
  IF b = "momentum" THEN "quality" ELSE IF b = "quality" THEN "income" ELSE "none"

NoIdeas == [value |-> <<>>, momentum |-> <<>>, quality |-> <<>>, income |-> <<>>]

\* a scan starts: the batch quote, and for generateIdeas the value loop
ScanStart(name, n, qs) ==
  /\ scanPc = "idle"
  /\ scanPc' = "loop"
  /\ scan' = [name |-> name, n |-> n]
  /\ quotes' = qs
  /\ bucket' = IF name = "findMoonshots" THEN "moonshots" ELSE "momentum"
  /\ symIdx' = 1
  /\ seen' = <<>>
  /\ results' = <<>>
  /\ ideas' = IF name = "generateIdeas"
              THEN [NoIdeas EXCEPT !.value = FirstK(SortDesc(ValueResults(qs, WatchLen), "score"), n)]
              ELSE <<>>
  /\ scanRet' = <<>>
  /\ UNCHANGED <<indVars, opVars, pairVars>>

\* the loop is over: sort, slice, and return or go on to the next loop
LoopEnd(sorted) ==
  /\ results' = sorted
  /\ IF scan.name = "generateIdeas"
     THEN /\ ideas' = [ideas EXCEPT ![bucket] = FirstK(sorted, scan.n)]
          /\ IF NextBucket(bucket) = "none"
             THEN /\ scanPc' = "done"
                  /\ scanRet' = [ideas EXCEPT ![bucket] = FirstK(sorted, scan.n)]
                  /\ UNCHANGED <<bucket, symIdx>>
             ELSE /\ bucket' = NextBucket(bucket)
                  /\ symIdx' = 1
                  /\ UNCHANGED <<scanPc, scanRet>>
     ELSE /\ scanPc' = "done"
          /\ scanRet' = FirstK(sorted, scan.n)
          /\ UNCHANGED <<bucket, symIdx, ideas>>

\* for (const sym of WATCHLIST) goes on to the next symbol, or the loop is over
Advance(rs, key) ==
  IF symIdx < WatchLen
  THEN /\ symIdx' = symIdx + 1
       /\ results' = rs
       /\ UNCHANGED <<scanPc, bucket, ideas, scanRet>>
  ELSE LoopEnd(SortDesc(rs, key))

\* one pass of a per-symbol loop: the reply to the fetch, and what the body
\* comes to; an exception that leaves the body leaves the scan
Iterate(reply, outcome, key) ==
  /\ scanPc = "loop"
  /\ seen' = Append(IF symIdx = 1 THEN <<>> ELSE seen, reply)
  /\ IF outcome.kind = "throw"
     THEN /\ scanPc' = "raised"
          /\ scanRet' = TypeError
          /\ UNCHANGED <<bucket, symIdx, results, ideas>>
     ELSE Advance(Pushed(IF symIdx = 1 THEN <<>> ELSE results, outcome), key)
  /\ UNCHANGED <<scan, quotes>>
  /\ UNCHANGED <<indVars, opVars, pairVars>>

MomentumScanStart ==
  \E n \in Limits, raw \in RawWatchQuotes :
    ScanStart("momentumScan", n, yahooQuoteBatch(Watched, raw))

\* histories that reach back past the three-, six- and twelve-month lookbacks
\* by one bar, and histories whose close one month back is 0
HistoryReplies ==
  {Bars(Rising(days + 1), 1) : days \in {Lookback3m, Lookback6m, Lookback12m}}
    \cup {ZeroBase(Rising(n), Lookback1m) : n \in {MomentumMinBars, Lookback3m + 1}}

\* series with the closes of another symbol's series one month back and at the
\* last bar, and another last volume or a peak in between
TwinReplies ==
  {Bars(Rising(MomentumMinBars), 2), Peaked(Rising(MomentumMinBars), 3)}

\* what the chart endpoint answers to momentumScan for the k-th symbol: the
\* first symbol of the watchlist is the one that may have a longer history, the
\* second the one that may be a twin of another
MomentumReplies(k) ==
  ChartReplies(MomentumMinBars)
    \cup (IF k = 1 THEN HistoryReplies ELSE IF k = 2 THEN TwinReplies ELSE {})

MomentumScanStep ==
  \E reply \in MomentumReplies(symIdx) :
    /\ scan.name = "momentumScan"
    /\ Iterate(reply, TryCatch(MomentumBody(WATCHLIST[symIdx], quotes, ChartOf(reply))), "score")

FindMoonshotsStart ==
  \E n \in Limits, raw \in RawWatchQuotes :
    ScanStart("findMoonshots", n, yahooQuoteBatch(Watched, raw))

FindMoonshotsStep ==
  \E reply \in MoonshotReplies(symIdx) :
    /\ scan.name = "findMoonshots"
    /\ Iterate(reply, TryCatch(MoonshotBody(WATCHLIST[symIdx], quotes, ChartOf(reply))),
               "vol_ratio")

IdeasMomentumStep ==
  \E reply \in FewChartReplies(MomentumMinBars) :
    /\ scan.name = "generateIdeas"
    /\ bucket = "momentum"
    /\ Iterate(reply, TryCatch(IdeasMomentumBody(WATCHLIST[symIdx], quotes, ChartOf(reply))),
               "score")

IdeasQualityStep ==
  \E reply \in QualityReplies(symIdx) :
    /\ scan.name = "generateIdeas"
    /\ bucket = "quality"
    /\ Iterate(reply, TryCatch(QualityBody(WATCHLIST[symIdx], quotes, yahooFundamentals(reply))),
               "score")

IdeasIncomeStep ==
  \E reply \in FundamentalsReplies :
    /\ scan.name = "generateIdeas"
    /\ bucket = "income"
    /\ Iterate(reply, TryCatch(IncomeBody(WATCHLIST[symIdx], quotes, yahooFundamentals(reply))),
               "score")

\* the bounds of dislocations on P/E and on market cap (in billions): 2, 80, 5e11
DislocMinPE == Num(2)

DislocMaxPE == Num(80)

DislocMaxCap == Num(500)

\* the entry dislocations pushes
DislocationEntry(sym, q, pe, mc) ==
  Push([ticker     |-> sym,
        name       |-> OrElse(q.name, sym),
        score      |-> FDiv(ONE, pe),
        pe         |-> RoundTo(pe, SCALE \div 10),
        market_cap |-> RoundTo(mc, SCALE \div 10),
        price      |-> q.price,
        change_pct |-> IF ~IsMarker(q.pct) THEN RoundTo(q.pct, SCALE \div 100) ELSE NULL])

\* if (!pe || pe <= 0 || pe < 2 || pe > 80) continue;
\* if (!mc || mc <= 0 || mc > 5e11) continue;
DislocationScreenBug(sym, q, pe, mc) ==
  IF Falsy(pe) \/ pe <= 0 \/ pe < DislocMinPE THEN Continue
  ELSE IF Falsy(mc) \/ mc <= 0 \/ mc > DislocMaxCap THEN Continue
  ELSE DislocationEntry(sym, q, pe, mc)

DislocationScreen(sym, q, pe, mc) ==
  IF Falsy(pe) \/ pe <= 0 \/ pe < DislocMinPE \/ pe > DislocMaxPE THEN Continue
  ELSE IF Falsy(mc) \/ mc <= 0 \/ mc > DislocMaxCap THEN Continue
  ELSE DislocationEntry(sym, q, pe, mc)

\* the loop body of dislocations for one symbol
DislocationBody(sym, q) ==
  IF Falsy(q.price) THEN Continue
  ELSE DislocationScreen(sym, q, OrElse(q.forwardPE, q.trailingPE), q.marketCap)

\* results after the loop over the first k symbols
RECURSIVE DislocationResults(_, _)
DislocationResults(qs, k) ==
  IF k = 0 THEN <<>>
  ELSE Pushed(DislocationResults(qs, k - 1), DislocationBody(WATCHLIST[k], qs[WATCHLIST[k]]))

\* what a quote item may say of a symbol's forward P/E, trailing P/E and market
\* cap (in billions): values inside, at, and outside the bounds, 0, and nothing
Valuations ==
  {[fpe |-> Num(15),      tpe |-> Num(20), mc |-> Num(40)],
   [fpe |-> EMPTY,        tpe |-> Num(20), mc |-> DislocMaxCap - 1],
   [fpe |-> DislocMinPE,  tpe |-> EMPTY,   mc |-> DislocMaxCap],
   [fpe |-> DislocMaxPE,  tpe |-> Num(20), mc |-> Num(40)],
   [fpe |-> (Num(3)) \div 2, tpe |-> Num(20), mc |-> Num(40)],
   [fpe |-> Num(90),      tpe |-> Num(20), mc |-> Num(40)],
   [fpe |-> 0,            tpe |-> EMPTY,   mc |-> Num(40)],
   [fpe |-> 0,            tpe |-> Num(20), mc |-> Num(40)],
   [fpe |-> 0 - Num(5),   tpe |-> Num(20), mc |-> Num(40)],
   [fpe |-> EMPTY,        tpe |-> EMPTY,   mc |-> Num(40)],
   [fpe |-> Num(15),      tpe |-> Num(20), mc |-> DislocMaxCap + 1]}

\* the item of the quote payload for the k-th symbol with valuation v
ValuedItem(k, v) ==
  [QuoteItem(WATCHLIST[k], Num(10) + Unit, 12345, v.fpe, v.tpe, 1) EXCEPT !.marketCap = v.mc]

\* what the quote endpoint answers to dislocations: a failed fetch, or an item
\* for each watched symbol
RawValuedQuotes ==
  {[kind |-> "throws"]}
    \cup {[kind |-> "data", items |-> [k \in 1..WatchLen |-> ValuedItem(k, vs[k])]] :
            vs \in [1..WatchLen -> Valuations]}

\* valuations between the bounds of the two value screens, by place in the
\* watchlist: a P/E of 2 at a cap of 500, a P/E of 15 at a cap just above 500,
\* and a P/E of 15 at a cap of 40
BetweenScreens(k) ==
  IF k % 3 = 1 THEN [fpe |-> DislocMinPE, tpe |-> EMPTY, mc |-> DislocMaxCap]
  ELSE IF k % 3 = 2 THEN [fpe |-> Num(15), tpe |-> Num(20), mc |-> DislocMaxCap + 1]
  ELSE [fpe |-> Num(15), tpe |-> Num(20), mc |-> Num(40)]

\* what the quote endpoint answers to generateIdeas
RawIdeasQuotes ==
  RawWatchQuotes
    \cup {[kind |-> "data", items |-> [k \in 1..WatchLen |-> ValuedItem(k, BetweenScreens(k))]]}

GenerateIdeasStart ==
  \E n \in Limits, raw \in RawIdeasQuotes :
    ScanStart("generateIdeas", n, yahooQuoteBatch(Watched, raw))

\* dislocations(n): the batch quote, the loop over the watchlist, the sort and
\* the slice
DislocationsOn(n, qs) ==
  /\ scanPc = "idle"
  /\ scanPc' = "done"
  /\ scan' = [name |-> "dislocations", n |-> n]
  /\ quotes' = qs
  /\ results' = SortDesc(DislocationResults(qs, WatchLen), "score")
  /\ scanRet' = FirstK(SortDesc(DislocationResults(qs, WatchLen), "score"), n)
  /\ UNCHANGED <<bucket, symIdx, seen, ideas>>
  /\ UNCHANGED <<indVars, opVars, pairVars>>

Dislocations ==
  \E n \in Limits, raw \in RawValuedQuotes : DislocationsOn(n, yahooQuoteBatch(Watched, raw))

ScanNext ==
  \/ Dislocations
  \/ MomentumScanStart
  \/ MomentumScanStep
  \/ FindMoonshotsStart
  \/ FindMoonshotsStep
  \/ GenerateIdeasStart
  \/ IdeasMomentumStep
  \/ IdeasQualityStep
  \/ IdeasIncomeStep

SpecScan == Init /\ [][ScanNext]_vars

----------------------------------------------------------------------------
(* Two scan invocations under way at once: momentumScan, findMoonshots *)

\* an async function runs from one await to the next without interruption: an
\* invocation is suspended only while a fetch of its own is in flight

PairScans == {"momentumScan", "findMoonshots"}

\* the least number of bars, the loop body and the sort key of each scan
LeastBars(name) == IF name = "momentumScan" THEN MomentumMinBars ELSE MoonshotMinBars

ScanBody(name, sym, qs, chart) ==
  IF name = "momentumScan" THEN MomentumBody(sym, qs, chart) ELSE MoonshotBody(sym, qs, chart)

KeyOf(name) == IF name = "momentumScan" THEN "score" ELSE "vol_ratio"

\* what the chart endpoint answers for the k-th symbol: a failed fetch or a
\* payload without a result, or enough rising bars with a surge of the last volume
PairReplies(name, k) ==
  {[kind |-> IF k % 2 = 1 THEN "throws" ELSE "noResult"], Bars(Rising(LeastBars(name)), 3)}

\* the limits the two invocations are called with: below the watchlist's length
PairLimits == {n \in Limits : n < WatchLen}

Fetch(c, kind, sym) == [call |-> c, kind |-> kind, sym |-> sym]

\* all the chart fetches of the rest of the watchlist go out at once
IssueBug(fetches, c, k) ==
  fetches \cup {Fetch(c, "chart", WATCHLIST[j]) : j \in k..WatchLen}

\* await yahooChart(sym, ...) for the k-th symbol: its fetch goes out
Issue(fetches, c, k) == fetches \cup {Fetch(c, "chart", WATCHLIST[k])}

\* one results array for all the invocations
AccumulateBug(all, c, outcome) ==
  [d \in CallIds |-> [all[d] EXCEPT !.results = Pushed(@, outcome)]]

\* results.push({...}) on the invocation's own const results = []
Accumulate(all, c, outcome) ==
  [all EXCEPT ![c] = [@ EXCEPT !.results = Pushed(@, outcome)]]

\* the scan is called: const results = [], and the batch quote goes out
Invoke(c) ==
  \E name \in PairScans, n \in PairLimits :
    /\ calls[c].pc = "idle"
    /\ calls' = [calls EXCEPT ![c] = [NoCall EXCEPT !.pc = "quote", !.name = name, !.n = n]]
    /\ net' = net \cup {Fetch(c, "quote", "*")}
    /\ UNCHANGED <<indVars, opVars, scanVars>>

\* the batch quote settles; the loop starts and the first chart fetch goes out
QuoteSettles(c) ==
  \E raw \in RawWatchQuotes :
    /\ calls[c].pc = "quote"
    /\ Fetch(c, "quote", "*") \in net
    /\ calls' = [calls EXCEPT ![c] = [@ EXCEPT !.pc = "chart",
                                               !.quotes = yahooQuoteBatch(Watched, raw),
                                               !.k = 1,
                                               !.fetched = <<WATCHLIST[1]>>]]
    /\ net' = Issue(net \ {Fetch(c, "quote", "*")}, c, 1)
    /\ UNCHANGED <<indVars, opVars, scanVars>>

\* the rest of the loop body once the chart fetch of the k-th symbol has
\* settled, and then the next symbol's fetch, or the sort, the slice and the return
AfterChart(c, reply, pushed) ==
  IF calls[c].k < WatchLen
  THEN /\ calls' = [pushed EXCEPT ![c] = [@ EXCEPT !.replies = Append(@, reply),
                                                    !.k = @ + 1,
                                                    !.fetched = Append(@, WATCHLIST[calls[c].k + 1])]]
       /\ net' = Issue(net \ {Fetch(c, "chart", WATCHLIST[calls[c].k])}, c, calls[c].k + 1)
  ELSE /\ calls' = [pushed EXCEPT ![c] =
                      [@ EXCEPT !.replies = Append(@, reply),
                                !.pc = "done",
                                !.results = SortDesc(@, KeyOf(calls[c].name)),
                                !.ret = FirstK(SortDesc(pushed[c].results, KeyOf(calls[c].name)),
                                               calls[c].n)]]
       /\ net' = net \ {Fetch(c, "chart", WATCHLIST[calls[c].k])}

ChartSettles(c) ==
  \E reply \in PairReplies(calls[c].name, calls[c].k) :
    /\ calls[c].pc = "chart"
    /\ Fetch(c, "chart", WATCHLIST[calls[c].k]) \in net
    /\ AfterChart(c, reply,
                  Accumulate(calls, c,
                             TryCatch(ScanBody(calls[c].name, WATCHLIST[calls[c].k],
                                               calls[c].quotes, ChartOf(reply)))))
    /\ UNCHANGED <<indVars, opVars, scanVars>>

PairNext ==
  \/ \E c \in CallIds : Invoke(c)
  \/ \E c \in CallIds : QuoteSettles(c)
  \/ \E c \in CallIds : ChartSettles(c)

SpecPair == Init /\ [][PairNext]_vars

\* every fetch settles: it carries a timeout (AbortSignal.timeout)
SpecPairFair ==
  /\ Init /\ [][PairNext]_vars
  /\ \A c \in CallIds : WF_vars(QuoteSettles(c)) /\ WF_vars(ChartSettles(c))

----------------------------------------------------------------------------
(* Claims about the indicator library, checked under SpecInd *)

IndN == Len(indCloses)

\* the arrays a call returned
IndOutputs ==
  IF indCall.fn = "calcBollingerBands" THEN {indRet.upper, indRet.middle, indRet.lower}
  ELSE IF indCall.fn = "calcMACD" THEN {indRet.macd, indRet.signal, indRet.histogram}
  ELSE {indRet}

PeriodFns == {"calcSMA", "calcEMA", "calcRSI", "calcATR", "calcBollingerBands"}

ShortCall ==
  /\ indPc = "ret"
  /\ \/ indCall.fn \in PeriodFns /\ IndN < indCall.period
     \/ indCall.fn = "calcADX" /\ IndN < 2 * indCall.period

\* C7: an indicator called on a series shorter than its period (calcADX: shorter
\* than twice its period) returns an array of the input's length holding only
\* the marker null.
C7_ShortInputAllMarkers ==
  ShortCall =>
    \A arr \in IndOutputs : Len(arr) = IndN /\ \A j \in 1..Len(arr) : arr[j] = NULL

ValidUpTo(arr, j) == Cardinality({k \in 1..j : ~IsMarker(arr[k])})

\* C8: calcMACD returns macd, signal and histogram of the input's length; signal
\* is computed only where at least `signal` valid macd values exist up to the
\* index, and histogram = macd - signal wherever both are computed.
C8_MACDAligned ==
  (indPc = "ret" /\ indCall.fn = "calcMACD") =>
    /\ Len(indRet.macd) = IndN
    /\ Len(indRet.signal) = IndN
    /\ Len(indRet.histogram) = IndN
    /\ \A j \in 1..IndN :
         /\ ~IsMarker(indRet.signal[j]) => ValidUpTo(indRet.macd, j) >= indCall.signal
         /\ (~IsMarker(indRet.macd[j]) /\ ~IsMarker(indRet.signal[j]))
              => indRet.histogram[j] = indRet.macd[j] - indRet.signal[j]

\* markers at exactly the first w indices of every returned array
MarkersExactly(w) ==
  \A arr \in IndOutputs : \A j \in 1..Len(arr) : IsMarker(arr[j]) <=> (j - 1 < w)

\* the warm-up length the specification states
StatedWarmup == IF indCall.fn = "calcADX" THEN 2 * indCall.period ELSE indCall.period - 1

\* C9 as stated: with at least warm-up many bars, markers sit at exactly the
\* leading warm-up indices, the warm-up being period-1 for SMA, EMA, RSI, ATR and
\* Bollinger Bands and 2*period for ADX.
C9_StatedWarmup ==
  (indPc = "ret" /\ indCall.fn \in PeriodFns \cup {"calcADX"} /\ IndN >= StatedWarmup)
    => MarkersExactly(StatedWarmup)

\* the warm-up length of the code
CodeWarmup == IF indCall.fn = "calcRSI" THEN indCall.period ELSE indCall.period - 1

\* C9 amended: the warm-up is period-1 for SMA, EMA, ATR, Bollinger Bands and
\* also for ADX (which needs at least 2*period bars to compute anything), and
\* period for RSI.
C9_CodeWarmup ==
  (/\ indPc = "ret"
   /\ indCall.fn \in PeriodFns \cup {"calcADX"}
   /\ IndN >= CodeWarmup
   /\ indCall.fn = "calcADX" => IndN >= 2 * indCall.period)
    => MarkersExactly(CodeWarmup)

\* an ADX call with enough bars whose entry at index period-1 is computed, and
\* with at least one marker before it
C9_Witness ==
  /\ indPc = "ret"
  /\ indCall.fn = "calcADX"
  /\ indCall.period >= 2
  /\ IndN >= 2 * indCall.period
  /\ ~IsMarker(indRet[indCall.period])
  /\ IsMarker(indRet[indCall.period - 1])

StrictlyIncreasing(data) == \A j \in 1..(Len(data) - 1) : data[j] < data[j + 1]

\* C10: on a strictly increasing series of at least period+1 closes every
\* computed entry of calcRSI is exactly 100.
C10_RisingRSIIs100 ==
  (/\ indPc = "ret"
   /\ indCall.fn = "calcRSI"
   /\ IndN >= indCall.period + 1
   /\ StrictlyIncreasing(indCloses))
    => /\ \A j \in 1..Len(indRet) : ~IsMarker(indRet[j]) => indRet[j] = Num(100)
       /\ ~IsMarker(indRet[IndN])

\* a rising series long enough for a Wilder smoothing step after the seed
C10_Witness ==
  /\ indPc = "ret"
  /\ indCall.fn = "calcRSI"
  /\ indCall.period >= 2
  /\ IndN >= indCall.period + 2
  /\ StrictlyIncreasing(indCloses)
  /\ indRet[IndN] = Num(100)
  /\ indRet[IndN - 1] = Num(100)

\* x[a] + ... + x[b], 1-based, one entry at a time
RECURSIVE Total(_, _, _)
Total(x, a, b) == IF a > b THEN 0 ELSE x[a] + Total(x, a + 1, b)

\* q is sum / p, cut to the model's resolution
IsQuotient(q, sum, p) == q * p <= sum /\ sum < (q + 1) * p

\* C12: calcSMA(x, p)[i] is the sum of x[i-p+1..i] divided by p for every index
\* i >= p-1 and the marker null for every index i < p-1 (indices 0-based; the
\* array has the length of x).
C12_SMAIsWindowMean ==
  (indPc = "ret" /\ indCall.fn = "calcSMA") =>
    /\ Len(indRet) = IndN
    /\ \A j \in 0..(IndN - 1) :
         IF j < indCall.period - 1 THEN indRet[j + 1] = NULL
         ELSE IsQuotient(indRet[j + 1],
                         Total(indCloses, j - indCall.period + 2, j + 1),
                         indCall.period)

\* a calcSMA call whose window slides at least once over unequal prices, with a
\* marker before the first mean
C12_Witness ==
  /\ indPc = "ret"
  /\ indCall.fn = "calcSMA"
  /\ indCall.period = 3
  /\ IndN = 4
  /\ indCloses = <<Num(1), Num(2), Num(4), Num(3)>>
  /\ indRet = <<NULL, NULL, (Num(7) \div 3), Num(3)>>

NonDecreasing(data) == \A j \in 1..(Len(data) - 1) : data[j] <= data[j + 1]

AllEqual(data) == \A j \in 1..(Len(data) - 1) : data[j] = data[j + 1]

\* the highs and lows of a calcATR or calcADX call
IndHighs == Shift(indCloses, Num(indCall.up))

IndLows == Shift(indCloses, 0 - Num(indCall.dn))

\* the true ranges of the call
IndTR == TRSeries(IndHighs, IndLows, indCloses)

\* const dx of the calcADX call
IndDX ==
  DXSeries(calcEMA(IndTR, indCall.period),
           calcEMA(PlusDM(IndHighs, IndLows), indCall.period),
           calcEMA(MinusDM(IndHighs, IndLows), indCall.period))

NullOrFinite(v) == v = NULL \/ IsFinite(v)

\* C11: on positive prices no division of calcRSI, calcADX or quantStats'
\* Sharpe ratio has a zero divisor, so every value they compute is a finite
\* number; with no losses RSI is 100, with zero true range every DX is 0, and
\* with zero volatility (as on a flat series) Sharpe is null.
C11_DivisionsGuarded ==
  indPc = "ret" =>
    /\ indCall.fn = "calcRSI" =>
          /\ \A j \in 1..Len(indRet) : NullOrFinite(indRet[j])
          /\ NonDecreasing(indCloses) =>
                \A j \in (indCall.period + 1)..IndN : indRet[j] = Num(100)
    /\ (indCall.fn = "calcADX" /\ IndN >= 2 * indCall.period) =>
          /\ \A j \in 1..IndN : IsFinite(IndDX[j]) /\ NullOrFinite(indRet[j])
          /\ (\A j \in 1..IndN : IndTR[j] = 0) => \A j \in 1..IndN : IndDX[j] = 0
    /\ (indCall.fn = "quantStats" /\ IndN >= 2) =>
          /\ NullOrFinite(indRet.sharpe)
          /\ indRet.annual_vol = 0 => indRet.sharpe = NULL
          /\ AllEqual(indCloses) => indRet.annual_vol = 0

\* a calcADX call on flat bars of zero range, long enough for the smoothed true
\* range to be computed, and zero, at the last two bars
C11_Witness ==
  /\ indPc = "ret"
  /\ indCall.fn = "calcADX"
  /\ indCall.period = 2
  /\ IndN = 4
  /\ \A j \in 1..IndN : IndTR[j] = 0
  /\ calcEMA(IndTR, indCall.period)[IndN] = 0
  /\ IndDX[IndN] = 0
  /\ indRet[IndN] = 0

StatsCall == indPc = "ret" /\ indCall.fn = "quantStats" /\ IndN >= 2

\* C13: on a flat series of at least 2 bars (equal positive closes, ascending
\* timestamps) quantStats returns total_return 0, max_drawdown 0, annual_vol 0
\* and sharpe null.
C13_FlatSeriesStats ==
  (StatsCall /\ AllEqual(indCloses)) =>
    /\ indRet.total_return = 0
    /\ indRet.max_drawdown = 0
    /\ indRet.annual_vol = 0
    /\ indRet.sharpe = NULL

\* three equal closes a year apart, for which the annual return is computed
C13_Witness ==
  /\ StatsCall
  /\ IndN = 3
  /\ AllEqual(indCloses)
  /\ indCall.gap = 365
  /\ indRet.annual_return = 0
  /\ indRet.annual_vol = 0
  /\ indRet.sharpe = NULL
  /\ indRet.data_points = 3

\* the closes of the quantStats call
StatsCloses == [j \in 1..IndN |-> StatsFloor + indCloses[j]]

\* the largest close up to and including bar j
RunningPeak(j) ==
  CHOOSE c \in {StatsCloses[k] : k \in 1..j} : \A k \in 1..j : StatsCloses[k] <= c

\* (close - runningPeak) / runningPeak at bar j
DrawdownAt(j) == FDiv(StatsCloses[j] - RunningPeak(j), RunningPeak(j))

\* C14: max_drawdown is the minimum over all bars of
\* (close - runningPeak) / runningPeak; it is 0 on a non-decreasing series and
\* always greater than -1 and at most 0.
C14_MaxDrawdownIsMinimum ==
  StatsCall =>
    /\ \E j \in 1..IndN : indRet.max_drawdown = DrawdownAt(j)
    /\ \A j \in 1..IndN : indRet.max_drawdown <= DrawdownAt(j)
    /\ NonDecreasing(indCloses) => indRet.max_drawdown = 0
    /\ indRet.max_drawdown > 0 - ONE
    /\ indRet.max_drawdown <= 0

\* a series that falls from a peak that is not its first bar, then recovers in
\* part: the drawdown is that of the low against the later peak
C14_Witness ==
  /\ StatsCall
  /\ indCloses = <<Num(1), Num(4), Num(2), Num(3)>>
  /\ indRet.max_drawdown = FDiv(Num(2) - Num(4), StatsFloor + Num(4))
  /\ indRet.max_drawdown < 0

----------------------------------------------------------------------------
(* Claims about backtestRSI, checked under Spec *)

\* backtestRSI got past its length check
BtRan == op.name = "backtestRSI" /\ ~TooFewBars(resp, BacktestMinBars)

Alternates(log) ==
  \A k \in 1..Len(log) : log[k].type = IF k % 2 = 1 THEN "BUY" ELSE "SELL"

Holding == position > 0 /\ cash = 0

Flat == position = 0 /\ cash > 0

\* C2: backtestRSI starts flat with cash 1.0; after every bar it is either fully
\* in cash or fully invested; the trade log alternates BUY, SELL, ... from a BUY,
\* a BUY being the last entry exactly while a position is held.
C2_SinglePosition ==
  BtRan =>
    /\ Flat \/ Holding
    /\ Alternates(tradeLog)
    /\ trades = Len(tradeLog)
    /\ (opPc = "loop" /\ i = 1) => (position = 0 /\ cash = ONE /\ tradeLog = <<>>)
    /\ opPc = "loop" =>
         (Holding <=> (tradeLog # <<>> /\ tradeLog[Len(tradeLog)].type = "BUY"))

\* inside the loop, holding again after a BUY and a SELL
C2_Witness ==
  /\ BtRan
  /\ opPc = "loop"
  /\ Len(tradeLog) >= 3
  /\ Holding

\* C3: when a position is open at the loop's end, the final cash is
\* position * last close and the forced exit adds nothing to the trade log or
\* the trade count: the log still ends with the BUY.
C3_ForcedExitNotLogged ==
  [][(opPc = "loop" /\ opPc' = "done" /\ position > 0) =>
       /\ cash' = FMul(position, Closes[Len(Closes)])
       /\ position' = 0
       /\ tradeLog' = tradeLog
       /\ trades' = trades
       /\ tradeLog'[Len(tradeLog')].type = "BUY"
       /\ result'.trades = trades
       /\ result'.total_return = cash' - ONE
       /\ result'.last_trades[Len(result'.last_trades)].type = "BUY"]_vars

\* a finished backtest whose series ended while the position was open
C3_Witness ==
  /\ BtRan
  /\ opPc = "done"
  /\ tradeLog # <<>>
  /\ tradeLog[Len(tradeLog)].type = "BUY"
  /\ result.trades = Len(tradeLog)
  /\ cash > 0

\* the bar (1-based) a logged trade happened at, found by its date
BarOf(t) == CHOOSE j \in 1..Len(resp.rows) : resp.rows[j].date = t.date

\* C4 as stated: every BUY is at a bar whose RSI is below buyThreshold while the
\* bar before had a computed RSI not below it, and every SELL at a bar whose RSI
\* is above sellThreshold while the bar before had a computed RSI not above it.
C4_StatedCrossings ==
  BtRan =>
    \A k \in 1..Len(tradeLog) :
      LET t == tradeLog[k]
          j == BarOf(t)
      IN IF t.type = "BUY"
         THEN /\ rsi[j] < op.buyThreshold
              /\ ~IsMarker(rsi[j - 1])
              /\ rsi[j - 1] >= op.buyThreshold
         ELSE /\ rsi[j] > op.sellThreshold
              /\ ~IsMarker(rsi[j - 1])
              /\ rsi[j - 1] <= op.sellThreshold

\* trade k - 1 of the log is of the given type and happened at bar j
PrecedingTradeAt(k, type, j) ==
  k > 1 /\ tradeLog[k - 1].type = type /\ BarOf(tradeLog[k - 1]) = j

\* C4 amended: the thresholds are levels tested while flat (BUY) or holding
\* (SELL).  A BUY is at a bar with RSI below buyThreshold whose previous bar had
\* no computed RSI yet, or an RSI not below buyThreshold, or carried the
\* preceding SELL; a SELL is at a bar with RSI above sellThreshold whose previous
\* bar had a computed RSI that was not above sellThreshold or carried the
\* preceding BUY.
C4_LevelsWhileFlatOrHolding ==
  BtRan =>
    \A k \in 1..Len(tradeLog) :
      LET t == tradeLog[k]
          j == BarOf(t)
      IN /\ t.rsi = rsi[j]
         /\ t.price = Closes[j]
         /\ IF t.type = "BUY"
            THEN /\ rsi[j] < op.buyThreshold
                 /\ \/ IsMarker(rsi[j - 1])
                    \/ rsi[j - 1] >= op.buyThreshold
                    \/ PrecedingTradeAt(k, "SELL", j - 1)
            ELSE /\ rsi[j] > op.sellThreshold
                 /\ ~IsMarker(rsi[j - 1])
                 /\ \/ rsi[j - 1] <= op.sellThreshold
                    \/ PrecedingTradeAt(k, "BUY", j - 1)

\* a BUY at the first bar with an RSI, a SELL, and a BUY on a genuine crossing
C4_Witness ==
  /\ BtRan
  /\ Len(tradeLog) >= 3
  /\ IsMarker(rsi[BarOf(tradeLog[1]) - 1])
  /\ tradeLog[3].type = "BUY"
  /\ ~IsMarker(rsi[BarOf(tradeLog[3]) - 1])
  /\ rsi[BarOf(tradeLog[3]) - 1] >= op.buyThreshold

Computed(j) == ~IsMarker(rsi[j])

DipBars == {j \in 1..Len(rsi) : Computed(j) /\ rsi[j] < Num(30)}

MinOf(S) == CHOOSE x \in S : \A y \in S : x <= y

MaxOf(S) == CHOOSE x \in S : \A y \in S : x >= y

\* the RSI is below 30 during exactly one stretch of bars and above 70 at some
\* bar after it
OneDipThenRise ==
  /\ DipBars # {}
  /\ \A j \in MinOf(DipBars)..MaxOf(DipBars) : j \in DipBars
  /\ \E j \in (MaxOf(DipBars) + 1)..Len(rsi) : rsi[j] > Num(70)

\* C5: with thresholds 30/70, a series whose RSI dips below 30 in exactly one
\* stretch and later rises above 70 gives exactly two trades, a BUY then a SELL
\* at a later bar; the position is flat at the end and the final cash is the
\* cash the SELL produced.
C5_OneDipOneRoundTrip ==
  (/\ BtRan
   /\ opPc = "done"
   /\ op.buyThreshold = Num(30)
   /\ op.sellThreshold = Num(70)
   /\ OneDipThenRise)
    => /\ result.trades = 2
       /\ Len(tradeLog) = 2
       /\ tradeLog[1].type = "BUY"
       /\ tradeLog[2].type = "SELL"
       /\ BarOf(tradeLog[1]) = MinOf(DipBars)
       /\ BarOf(tradeLog[1]) < BarOf(tradeLog[2])
       /\ result.last_trades = tradeLog
       /\ position = 0
       /\ result.total_return
            = FMul(FDiv(ONE, tradeLog[1].price), tradeLog[2].price) - ONE

\* such a backtest, finished, on a series that was already above 70 before the dip
C5_Witness ==
  /\ BtRan
  /\ opPc = "done"
  /\ op.buyThreshold = Num(30)
  /\ op.sellThreshold = Num(70)
  /\ OneDipThenRise
  /\ Len(tradeLog) = 2
  /\ \E j \in 1..MinOf(DipBars) : Computed(j) /\ rsi[j] > Num(70)

----------------------------------------------------------------------------
(* Claims about analyzeStock, checked under Spec *)

\* analyzeStock returned an analysis
Analyzed == opPc = "done" /\ op.name = "analyzeStock" /\ "verdict" \in DOMAIN result

Tenths(n) == Num(n) \div 10

\* the bullish and the bearish thresholds, on a Sharpe ratio s and a drawdown d
Bullish(s, d) == s > Tenths(12) /\ d > 0 - Tenths(3)

Bearish(s, d) == s < Tenths(3) /\ d < 0 - Tenths(4)

\* the bucket the thresholds give
Bucket(s, d) == IF Bullish(s, d) THEN "BUY" ELSE IF Bearish(s, d) THEN "SELL" ELSE "HOLD"

----------------------------------------------------------------------------
(* Claims about missing data, checked under Spec *)

\* the chart fetch gave null or fewer rows than the operation asks for
FewerBarsThan(least) == resp.isNull \/ Len(resp.rows) < least

\* the operation under way got no usable data from the provider
MissingData ==
  \/ op.name \in {"analyzeStock", "backtestRSI"} /\ FewerBarsThan(50)
  \/ op.name = "getChartData" /\ FewerBarsThan(5)
  \/ op.name = "getQuote" /\ IsMarker(quote.price)

NoNews == op.name = "getSentiment" /\ Len(headlines) = 0

\* C6: no top-level operation raises on missing data. When the provider gives
\* null, a null price or too few bars (fewer than 50 for analyzeStock and
\* backtestRSI, fewer than 5 for getChartData), getQuote, analyzeStock,
\* backtestRSI and getChartData return an object whose only field is the error
\* description; when there are no headlines, getSentiment returns score 0,
\* mood 'No data' and an empty headline list.
C6_MissingDataReturnsError ==
  /\ MissingData => opPc = "done" /\ DOMAIN result = {"error"}
  /\ NoNews => /\ opPc = "done"
               /\ DOMAIN result = {"ticker", "headlines", "score", "mood"}
               /\ result.score = 0
               /\ result.mood = "No data"
               /\ result.headlines = <<>>

\* analyzeStock was given one bar fewer than it asks for and returned the error
C6_Witness ==
  /\ op.name = "analyzeStock"
  /\ ~resp.isNull
  /\ Len(resp.rows) = 49
  /\ opPc = "done"
  /\ DOMAIN result = {"error"}

----------------------------------------------------------------------------
(* Claims about the watchlist scans, checked under SpecScan *)

\* a per-symbol loop has had the provider's answer for every watched symbol
LoopOver == Len(seen) = WatchLen

\* the loop that `seen` and `results` belong to once it is over
LoopOf ==
  IF scanPc = "loop" /\ bucket = "quality" THEN "momentum"
  ELSE IF scanPc = "loop" /\ bucket = "income" THEN "quality"
  ELSE bucket

\* what the body of that loop comes to for the k-th symbol, before any catch
BodyOutcome(k) ==
  IF scan.name = "momentumScan"
  THEN MomentumBody(WATCHLIST[k], quotes, ChartOf(seen[k]))
  ELSE IF scan.name = "findMoonshots"
  THEN MoonshotBody(WATCHLIST[k], quotes, ChartOf(seen[k]))
  ELSE IF LoopOf = "momentum"
  THEN IdeasMomentumBody(WATCHLIST[k], quotes, ChartOf(seen[k]))
  ELSE IF LoopOf = "quality"
  THEN QualityBody(WATCHLIST[k], quotes, yahooFundamentals(seen[k]))
  ELSE IncomeBody(WATCHLIST[k], quotes, yahooFundamentals(seen[k]))

\* the symbols whose fetch gave enough data, whose computation did not throw
\* and that passed the filters
Qualified == {WATCHLIST[k] : k \in {j \in 1..WatchLen : BodyOutcome(j).kind = "push"}}

TickersOf(arr) == {arr[j].ticker : j \in 1..Len(arr)}

\* the field the loop ranks by
RankKey == IF scan.name = "findMoonshots" THEN "vol_ratio" ELSE "score"

\* best first (a key that is NaN compares with no other), and no symbol twice
Ranked(arr) ==
  /\ \A j \in 1..(Len(arr) - 1) :
       \/ arr[j][RankKey] = NaN
       \/ arr[j + 1][RankKey] = NaN
       \/ arr[j][RankKey] >= arr[j + 1][RankKey]
  /\ Cardinality(TickersOf(arr)) = Len(arr)

\* what the loop handed on: the scan's return value, or the bucket of generateIdeas
Returned == IF scan.name = "generateIdeas" THEN ideas[LoopOf] ELSE scanRet

\* C1 as stated: the scans never raise, and when a per-symbol loop of
\* momentumScan, findMoonshots or generateIdeas is over, the ranking it returns
\* holds exactly the symbols whose fetch did not fail, whose computation did not
\* throw and that passed the filters.
C1_ReturnsAllQualified ==
  /\ scanPc # "raised"
  /\ LoopOver => Ranked(Returned) /\ TickersOf(Returned) = Qualified

\* C1 amended: the scans never raise; a failed fetch, too few bars or a throwing
\* computation skips that symbol only, so that when a per-symbol loop is over its
\* ranking holds exactly the qualifying symbols, best first; what is returned is
\* the first n (limit, perBucket) entries of that ranking.
C1_ReturnsBestOfQualified ==
  /\ scanPc # "raised"
  /\ LoopOver => /\ Ranked(results)
                 /\ TickersOf(results) = Qualified
                 /\ Returned = FirstK(results, scan.n)

\* the quality loop of generateIdeas is over: the first symbol's computation
\* threw, the second symbol's fetch failed, the third symbol is the ranking
C1_Witness ==
  /\ scan.name = "generateIdeas"
  /\ scanPc = "loop"
  /\ bucket = "income"
  /\ LoopOver
  /\ seen[1] = NoDebtFigure
  /\ seen[2] = [kind |-> "throws"]
  /\ QualityBody(WATCHLIST[1], quotes, yahooFundamentals(seen[1])).kind = "throw"
  /\ yahooFundamentals(seen[2]).isNull
  /\ TickersOf(ideas.quality) = {WATCHLIST[3]}

----------------------------------------------------------------------------
(* Claims about momentumScan, checked under SpecScan *)

\* the place in the watchlist of a ticker
PlaceOf(ticker) == CHOOSE k \in 1..Len(WATCHLIST) : WATCHLIST[k] = ticker

\* the closes and the volumes of the series fetched for the k-th symbol
ClosesOf(k) == Column(ChartOf(seen[k]).rows, "close")

VolumesOf(k) == Column(ChartOf(seen[k]).rows, "volume")

\* the lookbacks of momentumScan, their weights and the fields they are returned in
Lookbacks ==
  {[days |-> Lookback1m, w |-> Weight1m, field |-> "r1m"],
   [days |-> Lookback3m, w |-> Weight3m, field |-> "r3m"],
   [days |-> Lookback6m, w |-> Weight6m, field |-> "r6m"],
   [days |-> Lookback12m, w |-> Weight12m, field |-> "r12m"]}

\* the lookbacks the history reaches, with a positive close to start from
Available(closes) ==
  {lb \in Lookbacks : Len(closes) > lb.days /\ closes[Len(closes) - lb.days] > 0}

\* the return of the last close over the close `days` bars before it
ReturnOver(closes, days) == FDiv(closes[Len(closes)], closes[Len(closes) - days]) - ONE

\* the sum of f over the finite set S
RECURSIVE SetSum(_, _)
SetSum(f, S) ==
  IF S = {} THEN 0
  ELSE LET x == CHOOSE y \in S : TRUE IN f[x] + SetSum(f, S \ {x})

\* the weighted returns of the lookbacks in avail, over the sum of their weights
WeightedMean(closes, avail) ==
  FDiv(SetSum([lb \in avail |-> FMul(ReturnOver(closes, lb.days), lb.w)], avail),
       SetSum([lb \in avail |-> lb.w], avail))

\* what momentumScan adds to the composite: volume boost, nearness to the high,
\* trend strength, less the penalty for an extreme RSI
Bonuses(e, closes, volumes) ==
  VolumeBoost(VolZ(volumes))
    + NearHigh(Prox52w(closes, closes[Len(closes)],
                       MaxRange(LastK(closes, Lookback12m), 1, Len(LastK(closes, Lookback12m)))))
    + TrendBonus(e.adx) - ExtremePenalty(e.rsi)

\* entry e is scored on the lookbacks its history reaches, and on them alone
ScoredOnAvailable(e, closes, volumes) ==
  /\ Available(closes) # {}
  /\ \A lb \in Lookbacks :
       e[lb.field] = IF lb \in Available(closes) THEN ReturnOver(closes, lb.days) ELSE NULL
  /\ e.score = WeightedMean(closes, Available(closes)) + Bonuses(e, closes, volumes)

\* C16: the composite return score of a symbol in momentumScan is the sum of its
\* available 21/63/126/252-bar returns weighted 0.1/0.2/0.3/0.4, divided by the
\* sum of the weights of the available lookbacks; a lookback longer than the
\* history, or one that starts from a close that is not positive, is in neither
\* sum (and its return is reported as null, not 0).
C16_CompositeOverAvailable ==
  scan.name = "momentumScan" =>
    \A j \in 1..Len(results) :
      ScoredOnAvailable(results[j], ClosesOf(PlaceOf(results[j].ticker)),
                        VolumesOf(PlaceOf(results[j].ticker)))

\* the first symbol has 127 bars: its twelve-month return is null, and the
\* other three returns are weighted over 0.6, which is not their plain
\* weighted sum
C16_Witness ==
  /\ scan.name = "momentumScan"
  /\ scanPc = "done"
  /\ seen[1] = Bars(Rising(Lookback6m + 1), 1)
  /\ \E j \in 1..Len(results) :
       /\ results[j].ticker = WATCHLIST[1]
       /\ results[j].r12m = NULL
       /\ results[j].r6m > 0 /\ results[j].r3m > 0 /\ results[j].r1m > 0
       /\ results[j].score - Bonuses(results[j], ClosesOf(1), VolumesOf(1))
            = FDiv(FMul(results[j].r6m, Weight6m) + FMul(results[j].r3m, Weight3m)
                     + FMul(results[j].r1m, Weight1m),
                   Weight6m + Weight3m + Weight1m)
       /\ results[j].score - Bonuses(results[j], ClosesOf(1), VolumesOf(1))
            > FMul(results[j].r6m, Weight6m) + FMul(results[j].r3m, Weight3m)
                + FMul(results[j].r1m, Weight1m)

\* momentumScan has returned
MomentumDone == scan.name = "momentumScan" /\ scanPc = "done"

\* the volume z-score of the symbol of entry e, before it is rounded
RawVolZ(e) == VolZ(VolumesOf(PlaceOf(e.ticker)))

\* what a symbol gets for the nearness of its last close to the high
NearHighOf(closes) ==
  NearHigh(Prox52w(closes, closes[Len(closes)],
                   MaxRange(LastK(closes, Lookback12m), 1, Len(LastK(closes, Lookback12m)))))

\* what entry e gets for its nearness to the high, its trend and its RSI
OtherBonuses(e) ==
  NearHighOf(ClosesOf(PlaceOf(e.ticker))) + TrendBonus(e.adx) - ExtremePenalty(e.rsi)

SameReturns(d, e) ==
  d.r1m = e.r1m /\ d.r3m = e.r3m /\ d.r6m = e.r6m /\ d.r12m = e.r12m

\* C17 as stated: of two qualifying symbols with identical 21/63/126/252-bar
\* returns and different volume z-scores, the one with the higher z-score
\* appears above the other in the ranking.
C17_HigherVolumeRanksHigher ==
  MomentumDone =>
    \A a \in 1..Len(results), b \in 1..Len(results) :
      (SameReturns(results[a], results[b]) /\ RawVolZ(results[a]) > RawVolZ(results[b]))
        => a < b

\* C17 amended: of two qualifying symbols with identical returns, identical
\* bonuses for nearness to the 52-week high, ADX and RSI, and different volume
\* z-scores, the one with the higher z-score has a score at least as high, and
\* appears above the other whenever its score is strictly higher; with equal
\* scores the symbol that comes first in the watchlist appears first.
C17_HigherVolumeScoresNoLower ==
  MomentumDone =>
    \A a \in 1..Len(results), b \in 1..Len(results) :
      (/\ SameReturns(results[a], results[b])
       /\ OtherBonuses(results[a]) = OtherBonuses(results[b])
       /\ RawVolZ(results[a]) > RawVolZ(results[b]))
        => /\ results[a].score >= results[b].score
           /\ results[a].score > results[b].score => a < b
           /\ results[a].score = results[b].score =>
                (a < b <=> PlaceOf(results[a].ticker) < PlaceOf(results[b].ticker))

\* three symbols with the same closes and last volumes 1, 2 and 3 times the
\* usual: the third, with a positive z-score, is ranked first; the first two,
\* with z-scores below 0, have equal scores and keep the watchlist's order
C17_Witness ==
  /\ MomentumDone
  /\ seen = <<Bars(Rising(MomentumMinBars), 1), Bars(Rising(MomentumMinBars), 2),
              Bars(Rising(MomentumMinBars), 3)>>
  /\ Len(results) = 3
  /\ results[1].ticker = WATCHLIST[3]
  /\ results[2].ticker = WATCHLIST[1]
  /\ results[3].ticker = WATCHLIST[2]
  /\ RawVolZ(results[1]) > 0
  /\ RawVolZ(results[2]) < RawVolZ(results[3])
  /\ RawVolZ(results[3]) < 0
  /\ results[1].score > results[2].score
  /\ results[2].score = results[3].score

\* a last close of at least 5 and a lookback to score on
PricedIn(closes) == closes[Len(closes)] >= MinPrice /\ Available(closes) # {}

\* a fetched series that momentumScan ranks
QualifiesOn(chart) ==
  /\ ~chart.isNull
  /\ Len(chart.rows) >= MomentumMinBars
  /\ PricedIn(Column(chart.rows, "close"))

\* the entries of arr are in the order of the watchlist
InWatchOrder(arr) ==
  \A j \in 1..(Len(arr) - 1) : PlaceOf(arr[j].ticker) < PlaceOf(arr[j + 1].ticker)

\* entry d comes before entry e on the scores alone: a higher score, or the
\* same score and an earlier place in the watchlist
Before(d, e) ==
  \/ d.score > e.score
  \/ d.score = e.score /\ PlaceOf(d.ticker) < PlaceOf(e.ticker)

\* C18: momentumScan(n), n >= 1, returns at most n results in non-increasing
\* order of score, the n highest-scored qualifying symbols (no qualifying
\* symbol left out has a higher score than a returned one); nothing is sorted
\* or returned before the last watchlist symbol has been processed, and the
\* order is decided by the scores (and, between equal scores, by the watchlist).
C18_TopNByScore ==
  scan.name = "momentumScan" =>
    /\ scanPc = "loop" => scanRet = <<>> /\ InWatchOrder(results)
    /\ scanPc = "done" =>
         /\ Len(seen) = WatchLen
         /\ TickersOf(results)
              = {WATCHLIST[k] : k \in {j \in 1..WatchLen : QualifiesOn(ChartOf(seen[j]))}}
         /\ Len(scanRet) = Min(scan.n, Len(results))
         /\ \A j \in 1..Len(scanRet) :
              /\ \E k \in 1..Len(results) : scanRet[j] = results[k]
              /\ j < Len(scanRet) => Before(scanRet[j], scanRet[j + 1])
              /\ \A k \in 1..Len(results) :
                   results[k].ticker \notin TickersOf(scanRet)
                     => results[k].score <= scanRet[j].score

\* momentumScan(2) on three qualifying symbols: the third symbol of the
\* watchlist has the highest score and is returned first, the second has the
\* lowest and is left out
C18_Witness ==
  /\ MomentumDone
  /\ scan.n = 2
  /\ Len(results) = 3
  /\ Len(scanRet) = 2
  /\ scanRet[1].ticker = WATCHLIST[3]
  /\ scanRet[2].ticker = WATCHLIST[1]
  /\ scanRet[1].score > scanRet[2].score
  /\ results[3].ticker = WATCHLIST[2]
  /\ results[3].score < scanRet[2].score

----------------------------------------------------------------------------
(* Claims about dislocations, checked under SpecScan *)

\* dislocations has returned
DislocDone == scan.name = "dislocations" /\ scanPc = "done"

\* the P/E of a symbol: its forward P/E when the quote has one (a forward P/E of
\* 0 counts as none), else its trailing P/E
PEOf(sym) == OrElse(quotes[sym].forwardPE, quotes[sym].trailingPE)

InPERange(pe) == ~IsMarker(pe) /\ pe >= Num(2) /\ pe <= Num(80)

\* C19: every symbol dislocations returns has a P/E (forward when present, else
\* trailing) in [2, 80]; a symbol whose P/E is below 2, above 80, zero, negative
\* or missing is not returned, nor ranked; the results are in descending order
\* of 1/PE.
C19_PEWithinBounds ==
  DislocDone =>
    /\ \A j \in 1..Len(results) :
         /\ InPERange(PEOf(results[j].ticker))
         /\ results[j].score = FDiv(ONE, PEOf(results[j].ticker))
         /\ j < Len(results) =>
              FDiv(ONE, PEOf(results[j].ticker)) >= FDiv(ONE, PEOf(results[j + 1].ticker))
    /\ scanRet = FirstK(results, scan.n)

\* the three symbols have P/Es of 80 (forward), 20 (trailing, no forward) and 90:
\* the second is returned before the first, the third is not returned
C19_Witness ==
  /\ DislocDone
  /\ quotes[WATCHLIST[1]].forwardPE = Num(80)
  /\ quotes[WATCHLIST[2]].forwardPE = NULL
  /\ quotes[WATCHLIST[2]].trailingPE = Num(20)
  /\ quotes[WATCHLIST[3]].forwardPE = Num(90)
  /\ Len(scanRet) = 2
  /\ scanRet[1].ticker = WATCHLIST[2]
  /\ scanRet[2].ticker = WATCHLIST[1]

\* C20: every symbol dislocations returns has a market cap strictly below
\* $500B (5e11): a symbol with a market cap of exactly $500B or more is never
\* returned.
C20_CapBelow500B ==
  DislocDone =>
    \A j \in 1..Len(scanRet) : quotes[scanRet[j].ticker].marketCap < Num(500)

----------------------------------------------------------------------------
(* Claims about findMoonshots, checked under SpecScan *)

MoonshotsDone == scan.name = "findMoonshots" /\ scanPc = "done"

\* the highest close of the last 10 bars of a series
High10d(closes) == MaxRange(LastK(closes, 10), 1, Len(LastK(closes, 10)))

\* the four filters on a fetched series: a move of at most 4% from the prior
\* close, at least twice the prior volume, a close of at least 95% of the
\* 10-day high, a close of at least $5
SmallMove(closes) ==
  /\ closes[Len(closes) - 1] > 0
  /\ 100 * Abs(closes[Len(closes)] - closes[Len(closes) - 1]) <= 4 * closes[Len(closes) - 1]

VolumeDoubled(volumes) == volumes[Len(volumes)] >= 2 * volumes[Len(volumes) - 1]

NearBreakout(closes) == 100 * closes[Len(closes)] >= 95 * High10d(closes)

PassesFilters(closes, volumes) ==
  /\ SmallMove(closes)
  /\ VolumeDoubled(volumes)
  /\ NearBreakout(closes)
  /\ closes[Len(closes)] >= Num(5)

\* C21: every symbol findMoonshots returns satisfies all four filters on its
\* fetched series: a 1-day close-to-close move of at most 4% in absolute value,
\* a latest volume of at least twice the prior day's, a latest close of at least
\* 95% of the highest close of the last 10 bars, and a latest close of at least
\* $5; a symbol that fails one of them is not returned.
C21_ReturnedPassFilters ==
  MoonshotsDone =>
    \A j \in 1..Len(results) :
      PassesFilters(ClosesOf(PlaceOf(results[j].ticker)),
                    VolumesOf(PlaceOf(results[j].ticker)))

\* the first symbol sits on the thresholds (a move of 4%, twice the volume) and
\* is returned; the second moved 0.9% on twice the volume but closed below $5
\* and is not returned
C21_Witness ==
  /\ MoonshotsDone
  /\ seen[1] = LastTwo(Rising(MoonshotMinBars), Cents(500), Cents(520), Num(1), Num(2))
  /\ seen[2] = Bars(Falling(MoonshotMinBars), 1)
  /\ VolumeDoubled(VolumesOf(2))
  /\ TickersOf(scanRet) = {WATCHLIST[1]}

\* the ratio of the latest volume to the prior day's is larger for the k-th
\* symbol than for the m-th one (both prior volumes positive)
LargerRatio(k, m) ==
  /\ VolumesOf(k)[Len(VolumesOf(k)) - 1] > 0
  /\ VolumesOf(m)[Len(VolumesOf(m)) - 1] > 0
  /\ VolumesOf(k)[Len(VolumesOf(k))] * VolumesOf(m)[Len(VolumesOf(m)) - 1]
       > VolumesOf(m)[Len(VolumesOf(m))] * VolumesOf(k)[Len(VolumesOf(k)) - 1]

\* C22: findMoonshots ranks by volume ratio descending: of any two returned
\* symbols, the one whose ratio of latest volume to prior-day volume is larger
\* comes earlier in the result.
C22_LargerRatioFirst ==
  MoonshotsDone =>
    \A a, b \in 1..Len(scanRet) :
      LargerRatio(PlaceOf(scanRet[a].ticker), PlaceOf(scanRet[b].ticker)) => a < b

----------------------------------------------------------------------------
(* Claims about generateIdeas, checked under SpecScan *)

\* generateIdeas has computed its value bucket and keeps every symbol it admits
ValueBucketWhole == scan.name = "generateIdeas" /\ scan.n >= WatchLen

\* the entry dislocations makes of a symbol on the quotes of the scan
DislocatedAs(ticker) ==
  DislocationBody(ticker, quotes[ticker]).entry

\* the 52-week-low discount bonus of a symbol on the quotes of the scan
DiscountOf(ticker) ==
  Discount(NearLow(quotes[ticker].price, OrElse(quotes[ticker].fiftyTwoWeekLow, 0)))

\* C23: the value bucket of generateIdeas admits exactly the symbols that
\* dislocations admits on the same quotes (P/E in [2, 80], market cap below
\* $500B), and its score is that of dislocations plus the 52-week-low discount
\* bonus.
C23_ValueBucketAsDislocations ==
  ValueBucketWhole =>
    /\ TickersOf(ideas.value) = TickersOf(DislocationResults(quotes, WatchLen))
    /\ \A j \in 1..Len(ideas.value) :
         DislocationBody(ideas.value[j].ticker, quotes[ideas.value[j].ticker]).kind = "push"
           => ideas.value[j].score
                = DislocatedAs(ideas.value[j].ticker).score + DiscountOf(ideas.value[j].ticker)

\* the quality loop of generateIdeas is over: `seen` holds what the fundamentals
\* endpoint answered, `results` the sorted ranking
QualityOver == scan.name = "generateIdeas" /\ LoopOver /\ LoopOf = "quality"

\* the figures the quality loop reads for the k-th symbol
InfoOf(k) == yahooFundamentals(seen[k])

RgOf(k) == OrElse(InfoOf(k).revenueGrowth, 0)

GmOf(k) == OrElse(InfoOf(k).grossMargins, 0)

RoeOf(k) == OrElse(InfoOf(k).returnOnEquity, 0)

DteOf(k) == OrElse(InfoOf(k).debtToEquity, 0)

McOf(k) == OrElse(InfoOf(k).marketCap, OrElse(quotes[WATCHLIST[k]].marketCap, 0))

\* revenue growth >= 15%, gross margin >= 40%, ROE >= 15%, debt/equity <= 2.0
MeetsFour(k) ==
  /\ JsGe(RgOf(k), Pct(15))
  /\ JsGe(GmOf(k), Pct(40))
  /\ JsGe(RoeOf(k), Pct(15))
  /\ JsLe(DteOf(k), Num(2))

\* the four figures and the market cap of the k-th symbol are numbers
NumericFigures(k) ==
  \A v \in {RgOf(k), GmOf(k), RoeOf(k), DteOf(k), McOf(k)} : ~IsMarker(v) /\ v # OBJECT

\* 0.5 rg + 0.3 gm + 0.2 roe
WeightedQuality(k) ==
  IF NumericFigures(k) THEN (5 * RgOf(k) + 3 * GmOf(k) + 2 * RoeOf(k)) \div 10 ELSE NaN

CapInRange(k) == McOf(k) >= Num(1) \div 2 /\ McOf(k) <= Num(500)

----------------------------------------------------------------------------
(* Claims about the report of backtestRSI, checked under Spec *)

BtDone == BtRan /\ opPc = "done"

\* the dates of a log go up
Chronological(log) == \A j \in 1..(Len(log) - 1) : log[j].date < log[j + 1].date

\* C25: the trade count backtestRSI reports is the number of (signal-driven)
\* trades of the full trade log, and last_trades is the last min(6, trade count)
\* entries of that log, in their chronological order.
C25_ReportsCountAndLastSix ==
  BtDone =>
    /\ result.trades = Len(tradeLog)
    /\ \A j \in 1..Len(tradeLog) : tradeLog[j].type \in {"BUY", "SELL"}
    /\ Chronological(tradeLog)
    /\ Len(result.last_trades) = Min(6, result.trades)
    /\ \A j \in 1..Len(result.last_trades) :
         result.last_trades[j] = tradeLog[Len(tradeLog) - Len(result.last_trades) + j]

\* seven trades, a position open at the end: the report counts seven and shows
\* the second to the seventh
C25_Witness ==
  /\ BtDone
  /\ Len(tradeLog) = 7
  /\ tradeLog[7].type = "BUY"
  /\ result.trades = 7
  /\ Len(result.last_trades) = 6
  /\ result.last_trades[1] = tradeLog[2]
  /\ result.last_trades[6] = tradeLog[7]

----------------------------------------------------------------------------
(* Claims about scans under way at once, checked under SpecPair and SpecPairFair *)

\* the results array of a scan that runs alone and gets the first k of the
\* given replies to its chart fetches
RECURSIVE AloneResults(_, _, _, _)
AloneResults(name, qs, replies, k) ==
  IF k = 0 THEN <<>>
  ELSE Pushed(AloneResults(name, qs, replies, k - 1),
              TryCatch(ScanBody(name, WATCHLIST[k], qs, ChartOf(replies[k]))))

\* what that scan returns
Alone(name, n, qs, replies) ==
  FirstK(SortDesc(AloneResults(name, qs, replies, WatchLen), KeyOf(name)), n)

\* C26: two scan invocations whose steps interleave at the fetch boundaries do
\* not affect each other: what each returns is what it would return running
\* alone with the same fetch responses.
C26_ReturnsAsAlone ==
  \A c \in CallIds :
    calls[c].pc = "done" =>
      calls[c].ret = Alone(calls[c].name, calls[c].n, calls[c].quotes, calls[c].replies)

\* a momentumScan has returned two symbols while a findMoonshots that started
\* before it returned is in its loop with a symbol in its own results
C26_Witness ==
  /\ calls[1].pc = "done"
  /\ calls[1].name = "momentumScan"
  /\ Len(calls[1].ret) = 2
  /\ calls[2].pc = "chart"
  /\ calls[2].name = "findMoonshots"
  /\ calls[2].k = 3
  /\ Len(calls[2].results) = 1
  /\ calls[2].results[1].ticker \notin TickersOf(calls[1].results)

\* the chart fetches of invocation c that are in flight
ChartsInFlight(c) == {f \in net : f.call = c /\ f.kind = "chart"}

\* the chart fetches of an invocation go out one at a time in watchlist order:
\* at most one is in flight, for the symbol the loop is at, after the replies to
\* all the earlier ones; a scan that has returned has fetched each symbol once
OneAtATime(c) ==
  /\ Cardinality(ChartsInFlight(c)) <= 1
  /\ calls[c].fetched = SubSeq(WATCHLIST, 1, Len(calls[c].fetched))
  /\ calls[c].pc = "chart" =>
       /\ ChartsInFlight(c) = {Fetch(c, "chart", WATCHLIST[calls[c].k])}
       /\ Len(calls[c].fetched) = calls[c].k
       /\ Len(calls[c].replies) = calls[c].k - 1
  /\ calls[c].pc = "done" =>
       /\ ChartsInFlight(c) = {}
       /\ calls[c].fetched = Watched
       /\ Len(calls[c].replies) = WatchLen

\* C27: within one momentumScan or findMoonshots invocation the chart fetches
\* are issued one at a time in watchlist order (a symbol's fetch starts only when
\* the previous symbol's fetch has settled and its computation is over), and if
\* every fetch settles the scan returns, after exactly one chart fetch per
\* watchlist symbol.
C27_SequentialAndReturns ==
  /\ [](\A c \in CallIds : OneAtATime(c))
  /\ \A c \in CallIds : (calls[c].pc # "idle") ~> (calls[c].pc = "done")

\* one invocation has returned after a fetch for each watched symbol, the
\* last of which failed; the other waits for its second symbol's chart
C27_Witness ==
  /\ calls[1].pc = "done"
  /\ calls[1].fetched = Watched
  /\ calls[1].replies[2] = [kind |-> "noResult"]
  /\ calls[1].replies[WatchLen] = [kind |-> "throws"]
  /\ calls[1].quotes = yahooQuoteBatch(Watched, [kind |-> "throws"])
  /\ calls[2].pc = "chart"
  /\ ChartsInFlight(2) = {Fetch(2, "chart", WATCHLIST[2])}

----------------------------------------------------------------------------
(* Claims about the verdict on a series without volatility, checked under Spec *)

\* C28: analyzeStock gives the verdict SELL only when the Sharpe ratio is a
\* defined number below 0.3; when quantStats reports a Sharpe ratio of null
\* (zero volatility) the verdict is HOLD, whatever the maximum drawdown is.
C28_NullSharpeHolds ==
  Analyzed =>
    /\ result.verdict = "SELL" =>
         (result.stats.sharpe # NULL /\ JsLt(result.stats.sharpe, Tenths(3)))
    /\ result.stats.sharpe = NULL => result.verdict = "HOLD"

----------------------------------------------------------------------------
(* Claims about the pattern list of analyzeStock, checked under Spec *)

HasPattern(tag) == \E k \in 1..Len(result.patterns) : result.patterns[k] = tag

BothPatterns(a, b) == HasPattern(a) /\ HasPattern(b)

\* the closes analyzeStock worked on, and the last 20 of them
AnalyzedCloses == Column(resp.rows, "close")

Recent20 == LastK(AnalyzedCloses, RecentBars)

\* the pairs that compare the same two values with < and with >
NoStrictPair ==
  /\ ~BothPatterns("Golden Cross", "Death Cross")
  /\ ~BothPatterns("RSI Overbought", "RSI Oversold")
  /\ ~BothPatterns("MACD bullish crossover", "MACD bearish crossover")

\* C29 as stated: for every series of at least 50 bars, the pattern list of
\* analyzeStock never holds two opposite signals at once: not both Golden Cross
\* and Death Cross, not both RSI Overbought and Oversold, not both MACD bullish
\* and bearish crossover, not both the upper and the lower Bollinger-Band touch,
\* and not both 20-day High and 20-day Low.
C29_NoOppositePatterns ==
  Analyzed =>
    /\ NoStrictPair
    /\ ~BothPatterns("upper Bollinger Band", "lower Bollinger Band")
    /\ ~BothPatterns("20-day High", "20-day Low")

\* C29, amended: the list never holds both Golden Cross and Death Cross, both
\* RSI Overbought and Oversold, or both MACD crossovers; it holds both
\* Bollinger-Band touches only when the latest upper and lower band both equal
\* the latest close, and both 20-day High and 20-day Low only when the last 20
\* closes are all equal.
C29_OppositeOnlyWhenLevel ==
  Analyzed =>
    /\ NoStrictPair
    /\ BothPatterns("upper Bollinger Band", "lower Bollinger Band") =>
         /\ result.technicals.bb_upper = AnalyzedCloses[Len(AnalyzedCloses)]
         /\ result.technicals.bb_lower = AnalyzedCloses[Len(AnalyzedCloses)]
    /\ BothPatterns("20-day High", "20-day Low") => AllEqual(Recent20)

\* 50 equal closes: the close is on both bands and is both the 20-day high
\* and the 20-day low
C29_Witness ==
  /\ Analyzed
  /\ Len(AnalyzedCloses) = AnalyzeMinBars
  /\ AllEqual(AnalyzedCloses)
  /\ BothPatterns("upper Bollinger Band", "lower Bollinger Band")
  /\ BothPatterns("20-day High", "20-day Low")

----------------------------------------------------------------------------
(* Claims about the range of calcRSI, checked under SpecInd *)

RsiCall == indPc = "ret" /\ indCall.fn = "calcRSI"

\* avgGain and avgLoss of the call once index j (0-based) is computed
RsiAt(j) ==
  RsiLoop(indCloses, indCall.period, RSIStart(indCall.period) + 1, j,
          RsiState(FDiv(RsiSeed(indCloses, 1, indCall.period)[1], Num(indCall.period)),
                   FDiv(RsiSeed(indCloses, 1, indCall.period)[2], Num(indCall.period)),
                   Nulls(IndN), RSIStart(indCall.period)))

\* the indices (0-based) calcRSI computes
RsiComputed == {j \in 0..(IndN - 1) : ~IsMarker(indRet[j + 1])}

\* the entry lies in [0, 100] and both averages are non-negative
InRange(v, g, l) == v >= 0 /\ v <= Num(100) /\ g >= 0 /\ l >= 0

============================================================================
